---- MODULE Spec2Model ----
(***************************************************************************)
(* Shodan Telegram bot: the conversation flow of handlers.py as it is      *)
(* registered in bot_app.py (one ConversationHandler, allow_reentry=True). *)
(*                                                                         *)
(* Strings are sequences of atoms: a callback token "menu:main" is         *)
(* <<"menu", ":", "main">>, a text " a " is <<" ", "a", " ">>, and a       *)
(* placeholder "{org}" of a query template is one atom.                    *)
(*                                                                         *)
(* Every handler is an operator from (update, user_data of the sender,     *)
(* environment) to a record [ud, fx, exc, ret]: the user_data it leaves,   *)
(* the effects it performed in order (button acknowledgements, send        *)
(* attempts, upstream API calls), whether an exception escaped it, and the *)
(* conversation state it returned.                                         *)
(***************************************************************************)
EXTENDS Integers, Sequences, FiniteSets, TLC

VARIABLES
    allow,       \* config.AUTHORIZED_USERS, fixed at process start
    conv,        \* ConversationHandler._conversations: (chat, user) -> state
    user_data,   \* Application.user_data: user -> dict
    info_cache,  \* shodan_client._info_cache
    last,        \* the update handled by the latest step
    handler,     \* the callback the ConversationHandler selected for it
    fx,          \* the effects of handling it, in order
    lossy,       \* whether the transport may fail a send or an acknowledgement
    nEvents,     \* number of updates handled so far
    pure_in,     \* the arguments of a pure function under test
    pure_out,    \* its result, once applied
    tasks,       \* the updates whose handling has begun and not ended
    _application,\* bot_app._application, the instance shared by the webhook
    requests,    \* the webhook requests received, each with its position
    log          \* the effects of the updates of a scan dialogue, in order

\* the state of the webhook entry point
web == <<_application, requests>>

vars == <<allow, conv, user_data, info_cache, last, handler, fx, lossy, nEvents,
          pure_in, pure_out, tasks, _application, requests, log>>

----------------------------------------------------------------------------
(* Bounds *)

MaxEvents == 2        \* untraced updates handled before the traced one
MaxSendFail == 2      \* leading send attempts of one update that may fail

----------------------------------------------------------------------------
(* Identities and chats.  u1 talks to the bot in a private chat c1 and in  *)
(* a group chat c2; u2 is a member of the group chat.                      *)

Users == {"u1", "u2"}
Chats == {"c1", "c2"}
Keys == {<<"c1", "u1">>, <<"c2", "u1">>, <<"c2", "u2">>}
AllowLists == {{}, {"u1"}}

----------------------------------------------------------------------------
(* Text *)

WS == " "

RECURSIVE lstrip(_)
lstrip(s) == IF s # <<>> /\ Head(s) = WS THEN lstrip(Tail(s)) ELSE s

RECURSIVE rstrip(_)
rstrip(s) ==
    IF s # <<>> /\ s[Len(s)] = WS THEN rstrip(SubSeq(s, 1, Len(s) - 1)) ELSE s

\* variant: only leading whitespace is removed
strip_left(s) == lstrip(s)

\* str.strip()
strip(s) == rstrip(lstrip(s))

\* " ".join(args)
RECURSIVE join(_)
join(args) ==
    IF args = <<>> THEN <<>>
    ELSE IF Len(args) = 1 THEN <<args[1]>>
    ELSE <<args[1], WS>> \o join(Tail(args))

\* data.startswith(prefix)
startswith(s, p) == Len(s) >= Len(p) /\ SubSeq(s, 1, Len(p)) = p

\* data[n:] for a prefix of n atoms
after(s, n) == SubSeq(s, n + 1, Len(s))

\* index of the first ":" of s at or after position i, 0 when there is none
RECURSIVE find_colon(_, _)
find_colon(s, i) ==
    IF i > Len(s) THEN 0
    ELSE IF s[i] = ":" THEN i
    ELSE find_colon(s, i + 1)

\* variant: the text is split at every ":" and the third piece kept
split2_cut(s) ==
    LET i == find_colon(s, 1) IN
    IF i = 0 THEN <<s>>
    ELSE LET j == find_colon(s, i + 1) IN
         IF j = 0 THEN <<SubSeq(s, 1, i - 1), after(s, i)>>
         ELSE LET k == find_colon(s, j + 1) IN
              <<SubSeq(s, 1, i - 1), SubSeq(s, i + 1, j - 1),
                IF k = 0 THEN after(s, j) ELSE SubSeq(s, j + 1, k - 1)>>

\* data.split(":", 2)
split2(s) ==
    LET i == find_colon(s, 1) IN
    IF i = 0 THEN <<s>>
    ELSE LET j == find_colon(s, i + 1) IN
         IF j = 0 THEN <<SubSeq(s, 1, i - 1), after(s, i)>>
         ELSE <<SubSeq(s, 1, i - 1), SubSeq(s, i + 1, j - 1), after(s, j)>>

\* str.replace(old, new) for a one-atom old
RECURSIVE replace(_, _, _)
replace(s, old, new) ==
    IF s = <<>> THEN <<>>
    ELSE IF Head(s) = old THEN new \o replace(Tail(s), old, new)
    ELSE <<Head(s)>> \o replace(Tail(s), old, new)

\* "{" + name + "}"
Placeholder(name) == "{" \o name \o "}"

----------------------------------------------------------------------------
(* Python dict *)

has(d, k) == k \in DOMAIN d
put(d, k, v) == [x \in DOMAIN d \cup {k} |-> IF x = k THEN v ELSE d[x]]
pop(d, k) == [x \in DOMAIN d \ {k} |-> d[x]]
get(d, k, default) == IF has(d, k) THEN d[k] ELSE default
EmptyDict == <<>>

----------------------------------------------------------------------------
(* Template catalog (templates.py): two of its entries, one with two       *)
(* parameters and no facets, one with one parameter and a facet spec.      *)

NoFacets == <<>>

net_provider ==
    [id |-> "net_provider",
     category |-> "network",
     query_template |-> <<"org", ":", "\"", "{org}", "\"", WS,
                          "country", ":", "\"", "{country}", "\"">>,
     params |-> <<[name |-> "org", placeholder |-> <<"Telkom Indonesia">>],
                  [name |-> "country", placeholder |-> <<"ID">>]>>,
     example |-> <<"org", ":", "\"", "Telkom Indonesia", "\"", WS,
                   "country", ":", "\"", "ID", "\"">>,
     facets |-> NoFacets]

region_overview ==
    [id |-> "region_overview",
     category |-> "country",
     query_template |-> <<"country", ":", "\"", "{country}", "\"">>,
     params |-> <<[name |-> "country", placeholder |-> <<"ID">>]>>,
     example |-> <<"country", ":", "\"", "ID", "\"">>,
     facets |-> <<"org:10,port:10,product:10,os:5">>]

TEMPLATES == <<net_provider, region_overview>>

TemplateIds == {TEMPLATES[i].id : i \in DOMAIN TEMPLATES}

\* get_template_by_id: the template, or None; an id is a string of atoms
None == [id |-> "None"]

get_template_by_id(tid) ==
    IF \E i \in DOMAIN TEMPLATES : tid = <<TEMPLATES[i].id>>
    THEN TEMPLATES[CHOOSE i \in DOMAIN TEMPLATES :
                       /\ tid = <<TEMPLATES[i].id>>
                       /\ \A j \in 1..(i - 1) : tid # <<TEMPLATES[j].id>>]
    ELSE None

\* get_templates_by_category
get_templates_by_category(cat) ==
    SelectSeq(TEMPLATES, LAMBDA t : <<t.category>> = cat)

RECURSIVE build_from_nodefault(_, _, _, _)
build_from_nodefault(query, params, i, values) ==
    IF i > Len(params) THEN query
    ELSE LET param == params[i]
             value == get(values, <<param.name>>, <<>>)
         IN build_from_nodefault(replace(query, Placeholder(param.name), value),
                                 params, i + 1, values)

\* build_query: one str.replace per parameter, in parameter order
RECURSIVE build_from(_, _, _, _)
build_from(query, params, i, values) ==
    IF i > Len(params) THEN query
    ELSE LET param == params[i]
             value == get(values, <<param.name>>, param.placeholder)
         IN build_from(replace(query, Placeholder(param.name), value),
                       params, i + 1, values)

build_query(template, values) ==
    build_from(template.query_template, template.params, 1, values)

----------------------------------------------------------------------------
(* Conversation states (handlers.py:62-71) and ConversationHandler.END *)

STATE_WAITING_PARAM == "WAITING_PARAM"
STATE_WAITING_RAW_QUERY == "WAITING_RAW_QUERY"
STATE_WAITING_HOST_IP == "WAITING_HOST_IP"
STATE_WAITING_DNS == "WAITING_DNS"
STATE_WAITING_EXPLOIT == "WAITING_EXPLOIT"
STATE_WAITING_SCAN_IP == "WAITING_SCAN_IP"
STATE_WAITING_HONEYPOT_IP == "WAITING_HONEYPOT_IP"
STATE_WAITING_COUNT_QUERY == "WAITING_COUNT_QUERY"
END == "END"

WaitingStates ==
    {STATE_WAITING_PARAM, STATE_WAITING_RAW_QUERY, STATE_WAITING_HOST_IP,
     STATE_WAITING_DNS, STATE_WAITING_EXPLOIT, STATE_WAITING_SCAN_IP,
     STATE_WAITING_HONEYPOT_IP, STATE_WAITING_COUNT_QUERY}

----------------------------------------------------------------------------
(* Environment of one update: whether the acknowledgement of a button      *)
(* press reaches Telegram, how many of the first send attempts fail, and   *)
(* what the upstream API answers.                                          *)

\* an answer with content, an answer without content (no match, an empty
\* record), or an APIError
Upstream == {"full", "empty", "error"}

FullTotal == 60
total_of(res) == IF res = "full" THEN FullTotal ELSE 0

\* what the second request of dns_domain gets, made after a failed first
\* one: an answer or an APIError
Fallback == {"full", "error"}

Answers ==
    {[up |-> u, up2 |-> v] : u \in Upstream, v \in Fallback}
    \ {[up |-> u, up2 |-> "error"] : u \in Upstream \ {"error"}}

Reliable ==
    {[ack_ok |-> TRUE, fails |-> 0, up |-> a.up, up2 |-> a.up2] : a \in Answers}

Lossy ==
    {[ack_ok |-> k, fails |-> f, up |-> a.up, up2 |-> a.up2] :
        k \in BOOLEAN, f \in 0..MaxSendFail, a \in Answers}

----------------------------------------------------------------------------
(* Effects and the running record of a handler *)

Start(ud, cache) ==
    [ud |-> ud, cache |-> cache, fx |-> <<>>, exc |-> FALSE, ret |-> "RUNNING"]

Msg(what, arg, kb) == [what |-> what, arg |-> arg, kb |-> kb]

SendAttempts(effects) ==
    Cardinality({i \in DOMAIN effects : effects[i].t = "send"})

Attempt(r, env, m, html) ==
    [t |-> "send", what |-> m.what, arg |-> m.arg, kb |-> m.kb,
     html |-> html, ok |-> SendAttempts(r.fx) >= env.fails]

\* a send that is awaited outside any try block: a failure escapes
reply_text(r, env, m) ==
    IF r.exc THEN r
    ELSE LET a == Attempt(r, env, m, TRUE) IN
         [r EXCEPT !.fx = Append(@, a), !.exc = ~a.ok]

\* variant: a failed acknowledgement does not stop the handler
answer_unraised(r, env, alert) ==
    IF r.exc THEN r
    ELSE [r EXCEPT !.fx = Append(@, [t |-> "answer", alert |-> alert,
                                     ok |-> env.ack_ok])]

\* query.answer(): a failure escapes too
answer(r, env, alert) ==
    IF r.exc THEN r
    ELSE [r EXCEPT !.fx = Append(@, [t |-> "answer", alert |-> alert,
                                     ok |-> env.ack_ok]),
                   !.exc = ~env.ack_ok]

\* reply_html: one attempt, a failure is logged
reply_html(r, env, m) ==
    IF r.exc THEN r
    ELSE [r EXCEPT !.fx = Append(@, Attempt(r, env, m, TRUE))]

\* send_messages: per message one attempt and, when it fails, one plain
\* fallback; the markup goes on the last message
RECURSIVE send_from(_, _, _, _, _)
send_from(r, env, messages, i, reply_markup) ==
    IF i > Len(messages) THEN r
    ELSE LET markup == IF i = Len(messages) THEN reply_markup ELSE <<>>
             m == Msg(messages[i], <<>>, markup)
             a == Attempt(r, env, m, TRUE)
             r1 == [r EXCEPT !.fx = Append(@, a)]
             r2 == IF a.ok THEN r1
                   ELSE [r1 EXCEPT !.fx = Append(@, Attempt(r1, env, m, FALSE))]
         IN send_from(r2, env, messages, i + 1, reply_markup)

send_messages(r, env, messages, reply_markup) ==
    IF r.exc THEN r ELSE send_from(r, env, messages, 1, reply_markup)

\* a shodan_client call; the client turns an APIError into an error record
call(r, env, op, arg, page, facets, threaded) ==
    IF r.exc THEN r
    ELSE [r EXCEPT !.fx = Append(@, [t |-> "api", op |-> op, arg |-> arg,
                                     page |-> page, facets |-> facets,
                                     threaded |-> threaded, res |-> env.up])]

\* shodan_client.dns_domain: when the first request raises, a second request
\* is made through another method of the library
dns_domain(r, env, arg, threaded) ==
    LET r1 == call(r, env, "dns_domain", arg, 1, NoFacets, threaded) IN
    IF r.exc \/ env.up # "error" THEN r1
    ELSE [r1 EXCEPT !.fx = Append(@, [t |-> "request", op |-> "get_domain",
                                      arg |-> arg, res |-> env.up2])]

\* what dns_domain returns: the first answer, or the answer of the fallback
domain_data(env) == IF env.up = "error" THEN env.up2 ELSE env.up

\* the formatters (formatter.py): the error text for a record carrying an
\* error, for the honeypot score a notice for the score -1.0
format_dns_resolve(data) ==
    IF data = "error" THEN "api_error" ELSE "dns_resolve_result"
format_dns_reverse(data) ==
    IF data = "error" THEN "api_error" ELSE "dns_reverse_result"
format_domain_info(data) ==
    IF data = "error" THEN "api_error" ELSE "dns_domain_result"
format_exploits(data) ==
    IF data = "error" THEN <<"api_error">> ELSE <<"exploits">>
format_scan_result(data) ==
    IF data = "error" THEN "api_error" ELSE "scan_result"
format_scan_status(data) ==
    IF data = "error" THEN "api_error" ELSE "scan_status"
format_honeypot_score(score) ==
    IF score = "error" THEN "honeypot_unavailable" ELSE "honeypot_score"

\* context.user_data[k] = v, context.user_data.pop(k, None), return state
set(r, k, v) == IF r.exc THEN r ELSE [r EXCEPT !.ud = put(@, k, v)]
drop(r, k) == IF r.exc THEN r ELSE [r EXCEPT !.ud = pop(@, k)]
return(r, state) == IF r.exc THEN r ELSE [r EXCEPT !.ret = state]
raise(r) == [r EXCEPT !.exc = TRUE]

----------------------------------------------------------------------------
(* Keyboards (keyboards.py): the callback data of the buttons, in order *)

Tok(ns, arg) == <<ns, ":">> \o arg

main_menu_keyboard ==
    <<Tok("menu", <<"templates">>), Tok("menu", <<"host">>),
      Tok("menu", <<"dns">>), Tok("menu", <<"exploits">>),
      Tok("menu", <<"vuln">>), Tok("menu", <<"count">>),
      Tok("menu", <<"raw">>), Tok("cmd", <<"info">>),
      Tok("cmd", <<"filters">>), Tok("cmd", <<"help">>)>>

back_to_main_keyboard == <<Tok("menu", <<"main">>)>>

CategoryOrder == <<"network", "country">>

categories_keyboard ==
    [i \in DOMAIN CategoryOrder |-> Tok("cat", <<CategoryOrder[i]>>)]
        \o <<Tok("menu", <<"main">>)>>

templates_in_category_keyboard(category) ==
    LET ts == get_templates_by_category(category) IN
    [i \in DOMAIN ts |-> Tok("tmpl", <<ts[i].id>>)]
        \o <<Tok("menu", <<"templates">>)>>

template_detail_keyboard(template) ==
    <<Tok("use", <<template.id>>), Tok("example", <<template.id>>),
      Tok("cat", <<template.category>>)>>

PerPage == 5
PageCap == 10

\* total_pages = max(1, (total + per_page - 1) // per_page)
total_pages(total, per_page) ==
    IF (total + per_page - 1) \div per_page > 1
    THEN (total + per_page - 1) \div per_page ELSE 1

\* the label of the page indicator button: current page and total pages
page_label(current_page, total, per_page) ==
    <<current_page, total_pages(total, per_page)>>

\* variant: the next button is still offered on the last page
pagination_keyboard_off(query, current_page, total, per_page) ==
    LET prev == IF current_page > 1
                THEN <<Tok("page", <<ToString(current_page - 1), ":">> \o query)>>
                ELSE <<>>
        next == IF current_page <= total_pages(total, per_page)
                   /\ current_page < PageCap
                THEN <<Tok("page", <<ToString(current_page + 1), ":">> \o query)>>
                ELSE <<>>
    IN prev \o <<<<"noop">>>> \o next \o <<Tok("menu", <<"main">>)>>

pagination_keyboard_for(query, current_page, total, per_page) ==
    LET prev == IF current_page > 1
                THEN <<Tok("page", <<ToString(current_page - 1), ":">> \o query)>>
                ELSE <<>>
        next == IF current_page < total_pages(total, per_page)
                   /\ current_page < PageCap
                THEN <<Tok("page", <<ToString(current_page + 1), ":">> \o query)>>
                ELSE <<>>
    IN prev \o <<<<"noop">>>> \o next \o <<Tok("menu", <<"main">>)>>

\* variant: the next button is offered on every page but the last
pagination_keyboard_nocap(query, current_page, total) ==
    LET prev == IF current_page > 1
                THEN <<Tok("page", <<ToString(current_page - 1), ":">> \o query)>>
                ELSE <<>>
        next == IF current_page < total_pages(total, PerPage)
                THEN <<Tok("page", <<ToString(current_page + 1), ":">> \o query)>>
                ELSE <<>>
    IN prev \o <<<<"noop">>>> \o next \o <<Tok("menu", <<"main">>)>>

\* the call with per_page left at its default
pagination_keyboard(query, current_page, total) ==
    pagination_keyboard_for(query, current_page, total, PerPage)

dns_menu_keyboard ==
    <<Tok("dns", <<"resolve">>), Tok("dns", <<"reverse">>),
      Tok("dns", <<"domain">>), Tok("menu", <<"main">>)>>

confirm_scan_keyboard(ip) == <<Tok("doscan", ip), Tok("menu", <<"main">>)>>

----------------------------------------------------------------------------
(* Execution helpers (handlers.py:826-901) *)

\* format_search_results: a header, then the matches or a no-result note
format_search_results(res) ==
    IF res = "full" THEN <<"search_header", "search_match">>
    ELSE <<"search_header", "search_no_result">>

ErrorMsg(what) == Msg(what, <<>>, back_to_main_keyboard)

_execute_search(r, env, query, page, facets) ==
    LET r1 == call(r, env, "search", query, page, facets, TRUE) IN
    IF env.up = "error" THEN reply_html(r1, env, ErrorMsg("api_error"))
    ELSE LET total == total_of(env.up)
             markup == IF total > 0 THEN pagination_keyboard(query, page, total)
                       ELSE back_to_main_keyboard
         IN send_messages(r1, env, format_search_results(env.up), markup)

_execute_count(r, env, query) ==
    LET r1 == call(r, env, "count", query, 1, <<"org:10,port:10,country:10">>,
                   TRUE) IN
    IF env.up = "error" THEN reply_html(r1, env, ErrorMsg("api_error"))
    ELSE reply_html(r1, env, Msg("count_result", query, back_to_main_keyboard))

_execute_host(r, env, ip) ==
    LET r1 == reply_html(r, env, Msg("looking_up", ip, <<>>))
        r2 == call(r1, env, "host", ip, 1, NoFacets, TRUE)
    IN IF env.up = "error" THEN reply_html(r2, env, ErrorMsg("api_error"))
       ELSE send_messages(r2, env, <<"host_info">>, back_to_main_keyboard)

\* shodan_client.api_info through the one-shot cache of account_info:
\* "if not self._info_cache" fetches when the cache is None or an empty record
api_info(r, env, threaded) ==
    IF r.exc THEN r
    ELSE IF r.cache \in {"None", "empty"}
    THEN LET r1 == call(r, env, "info", <<>>, 1, NoFacets, threaded) IN
         IF env.up = "error" THEN r1
         ELSE [r1 EXCEPT !.cache = env.up]
    ELSE r

\* whether the api_info call just made raised (the APIError of api.info())
info_raised(r, env) == r.cache \in {"None", "empty"} /\ env.up = "error"

----------------------------------------------------------------------------
(* Command handlers (handlers.py:157-373): the bodies under @authorized *)

Prompt(what) == Msg(what, <<>>, back_to_main_keyboard)

cmd_start(upd, r, env) ==
    return(reply_html(r, env, Msg("welcome", <<>>, main_menu_keyboard)), END)

cmd_help(upd, r, env) ==
    return(reply_html(r, env, Msg("welcome", <<>>, main_menu_keyboard)), END)

cmd_templates(upd, r, env) ==
    return(reply_html(r, env, Msg("categories", <<>>, categories_keyboard)), END)

\* variant: the awaited kind is set on the direct path too
cmd_search_stale(upd, r, env) ==
    IF upd.args = <<>>
    THEN return(set(reply_html(r, env, Prompt("prompt_raw_query")),
                    "awaiting", "raw_query"),
                STATE_WAITING_RAW_QUERY)
    ELSE return(set(_execute_search(r, env, join(upd.args), 1, NoFacets),
                    "awaiting", "raw_query"), END)

cmd_search(upd, r, env) ==
    IF upd.args = <<>>
    THEN return(set(reply_html(r, env, Prompt("prompt_raw_query")),
                    "awaiting", "raw_query"),
                STATE_WAITING_RAW_QUERY)
    ELSE return(_execute_search(r, env, join(upd.args), 1, NoFacets), END)

cmd_count(upd, r, env) ==
    IF upd.args = <<>>
    THEN return(set(reply_html(r, env, Prompt("prompt_count_query")),
                    "awaiting", "count_query"),
                STATE_WAITING_COUNT_QUERY)
    ELSE return(_execute_count(r, env, join(upd.args)), END)

cmd_host(upd, r, env) ==
    IF upd.args = <<>>
    THEN return(set(reply_html(r, env, Prompt("prompt_host_ip")),
                    "awaiting", "host_ip"),
                STATE_WAITING_HOST_IP)
    ELSE return(_execute_host(r, env, <<upd.args[1]>>), END)

\* the commands below call shodan_client on the event loop, outside
\* asyncio.to_thread and outside any try block
cmd_dns(upd, r, env) ==
    IF upd.args = <<>>
    THEN return(set(reply_html(r, env, Prompt("prompt_dns_resolve")),
                    "awaiting", "dns_resolve"),
                STATE_WAITING_DNS)
    ELSE LET r1 == call(r, env, "dns_resolve", <<upd.args[1]>>, 1, NoFacets,
                        FALSE)
         IN return(reply_html(r1, env, Prompt(format_dns_resolve(env.up))), END)

cmd_rdns(upd, r, env) ==
    IF upd.args = <<>>
    THEN return(set(reply_html(r, env, Prompt("prompt_dns_reverse")),
                    "awaiting", "dns_reverse"),
                STATE_WAITING_DNS)
    ELSE LET r1 == call(r, env, "dns_reverse", <<upd.args[1]>>, 1, NoFacets,
                        FALSE)
         IN return(reply_html(r1, env, Prompt(format_dns_reverse(env.up))), END)

cmd_domain(upd, r, env) ==
    IF upd.args = <<>>
    THEN return(set(reply_html(r, env, Prompt("prompt_dns_domain")),
                    "awaiting", "dns_domain"),
                STATE_WAITING_DNS)
    ELSE LET r1 == dns_domain(r, env, <<upd.args[1]>>, FALSE)
         IN return(reply_html(r1, env,
                              Prompt(format_domain_info(domain_data(env)))),
                   END)

cmd_exploit(upd, r, env) ==
    IF upd.args = <<>>
    THEN return(set(reply_html(r, env, Prompt("prompt_exploit_query")),
                    "awaiting", "exploit_query"),
                STATE_WAITING_EXPLOIT)
    ELSE LET r1 == call(r, env, "search_exploits", join(upd.args), 1, NoFacets,
                        FALSE)
         IN return(send_messages(r1, env, format_exploits(env.up),
                                 back_to_main_keyboard), END)

cmd_honeypot(upd, r, env) ==
    IF upd.args = <<>>
    THEN return(set(reply_html(r, env, Prompt("prompt_honeypot_ip")),
                    "awaiting", "honeypot_ip"),
                STATE_WAITING_HONEYPOT_IP)
    ELSE LET r1 == call(r, env, "honeypot_score", <<upd.args[1]>>, 1, NoFacets,
                        FALSE)
         IN return(reply_html(r1, env, Msg(format_honeypot_score(env.up),
                                           <<upd.args[1]>>,
                                           back_to_main_keyboard)), END)

cmd_scan(upd, r, env) ==
    IF upd.args = <<>>
    THEN return(set(reply_html(r, env, Prompt("prompt_scan_ip")),
                    "awaiting", "scan_ip"),
                STATE_WAITING_SCAN_IP)
    ELSE LET ip == <<upd.args[1]>> IN
         return(reply_html(r, env, Msg("confirm_scan", ip,
                                       confirm_scan_keyboard(ip))), END)

cmd_scanstatus(upd, r, env) ==
    IF upd.args = <<>>
    THEN return(reply_html(r, env, Prompt("scanstatus_usage")), END)
    ELSE LET r1 == call(r, env, "scan_status", <<upd.args[1]>>, 1, NoFacets,
                        FALSE)
         IN return(reply_html(r1, env, Prompt(format_scan_status(env.up))),
                   END)

cmd_info(upd, r, env) ==
    LET r1 == api_info(r, env, TRUE) IN
    IF info_raised(r, env)
    THEN return(reply_html(r1, env, ErrorMsg("error")), END)
    ELSE return(reply_html(r1, env, Msg("api_info", <<r1.cache>>,
                                        back_to_main_keyboard)), END)

cmd_filters(upd, r, env) ==
    return(reply_html(r, env, Prompt("filters_help")), END)

----------------------------------------------------------------------------
(* Template parameter flow (handlers.py:622-819) *)

NoId == <<"None">>

\* variant: the completion search drops the facet spec of the template
_ask_next_param_nofacets(upd, r, env) ==
    LET tmpl_id == get(r.ud, "current_template", NoId)
        tmpl == get_template_by_id(tmpl_id)
    IN
    IF tmpl = None THEN return(r, END)
    ELSE
    LET idx == get(r.ud, "param_index", 0)
        values == get(r.ud, "template_values", EmptyDict)
    IN
    IF idx >= Len(tmpl.params)
    THEN LET query == build_query(tmpl, values)
             r1 == reply_text(r, env, Msg("running", query, <<>>))
             r2 == _execute_search(r1, env, query, 1, NoFacets)
             r3 == drop(drop(drop(r2, "current_template"), "template_values"),
                        "param_index")
         IN return(r3, END)
    ELSE LET param == tmpl.params[idx + 1]
             markup == <<Tok("default", <<param.name, ":">> \o param.placeholder),
                         Tok("menu", <<"main">>)>>
             r1 == reply_text(r, env, Msg("param_prompt",
                                          <<tmpl.id, param.name>>, markup))
         IN return(set(r1, "awaiting", "template_param"), STATE_WAITING_PARAM)

\* variant: on completion the selection is kept and the index stepped on
_ask_next_param_overrun(upd, r, env) ==
    LET tmpl_id == get(r.ud, "current_template", NoId)
        tmpl == get_template_by_id(tmpl_id)
    IN
    IF tmpl = None THEN return(r, END)
    ELSE
    LET idx == get(r.ud, "param_index", 0)
        values == get(r.ud, "template_values", EmptyDict)
    IN
    IF idx >= Len(tmpl.params)
    THEN LET query == build_query(tmpl, values)
             r1 == reply_text(r, env, Msg("running", query, <<>>))
             r2 == _execute_search(r1, env, query, 1, tmpl.facets)
             r3 == set(r2, "param_index", idx + 2)
         IN return(r3, END)
    ELSE LET param == tmpl.params[idx + 1]
             markup == <<Tok("default", <<param.name, ":">> \o param.placeholder),
                         Tok("menu", <<"main">>)>>
             r1 == reply_text(r, env, Msg("param_prompt",
                                          <<tmpl.id, param.name>>, markup))
         IN return(set(r1, "awaiting", "template_param"), STATE_WAITING_PARAM)

_ask_next_param(upd, r, env) ==
    LET tmpl_id == get(r.ud, "current_template", NoId)
        tmpl == get_template_by_id(tmpl_id)
    IN
    IF tmpl = None THEN return(r, END)
    ELSE
    LET idx == get(r.ud, "param_index", 0)
        values == get(r.ud, "template_values", EmptyDict)
    IN
    IF idx >= Len(tmpl.params)
    THEN LET query == build_query(tmpl, values)
             r1 == reply_text(r, env, Msg("running", query, <<>>))
             r2 == _execute_search(r1, env, query, 1, tmpl.facets)
             r3 == drop(drop(drop(r2, "current_template"), "template_values"),
                        "param_index")
         IN return(r3, END)
    ELSE LET param == tmpl.params[idx + 1]
             markup == <<Tok("default", <<param.name, ":">> \o param.placeholder),
                         Tok("menu", <<"main">>)>>
             r1 == reply_text(r, env, Msg("param_prompt",
                                          <<tmpl.id, param.name>>, markup))
         IN return(set(r1, "awaiting", "template_param"), STATE_WAITING_PARAM)

\* the dns, exploit and honeypot branches: one threaded call, one reply
simple_lookup(r, env, op, arg, what) ==
    LET r1 == call(drop(r, "awaiting"), env, op, arg, 1, NoFacets, TRUE) IN
    return(reply_html(r1, env, Msg(what, arg, back_to_main_keyboard)), END)

\* variant: the value is stored in a fresh map
store_value_reset(values, name, value) == put(EmptyDict, <<name>>, value)

\* context.user_data["template_values"][param.name] = value
store_value(values, name, value) == put(values, <<name>>, value)

handle_param_input(upd, r, env) ==
    LET awaiting == get(r.ud, "awaiting", "")
        text == strip(upd.text)
    IN
    CASE awaiting = "template_param" ->
            LET tmpl == get_template_by_id(get(r.ud, "current_template", NoId))
                idx == get(r.ud, "param_index", 0)
            IN
            IF tmpl = None THEN return(r, END)
            ELSE IF idx + 1 > Len(tmpl.params) THEN raise(r)       \* IndexError
            ELSE IF ~has(r.ud, "template_values") THEN raise(r)    \* KeyError
            ELSE LET param == tmpl.params[idx + 1]
                     r1 == set(r, "template_values",
                               store_value(r.ud["template_values"], param.name,
                                           text))
                     r2 == set(r1, "param_index", idx + 1)
                 IN _ask_next_param(upd, r2, env)
      [] awaiting = "raw_query" ->
            LET r1 == reply_text(drop(r, "awaiting"), env,
                                 Msg("searching", text, <<>>))
            IN return(_execute_search(r1, env, text, 1, NoFacets), END)
      [] awaiting = "count_query" ->
            return(_execute_count(drop(r, "awaiting"), env, text), END)
      [] awaiting = "host_ip" ->
            return(_execute_host(drop(r, "awaiting"), env, text), END)
      [] awaiting = "dns_resolve" ->
            simple_lookup(r, env, "dns_resolve", text,
                          format_dns_resolve(env.up))
      [] awaiting = "dns_reverse" ->
            simple_lookup(r, env, "dns_reverse", text,
                          format_dns_reverse(env.up))
      [] awaiting = "dns_domain" ->
            LET r1 == dns_domain(drop(r, "awaiting"), env, text, TRUE) IN
            return(reply_html(r1, env,
                              Msg(format_domain_info(domain_data(env)), text,
                                  back_to_main_keyboard)), END)
      [] awaiting = "exploit_query" ->
            LET r1 == call(drop(r, "awaiting"), env, "search_exploits", text, 1,
                           NoFacets, TRUE)
            IN return(send_messages(r1, env, format_exploits(env.up),
                                    back_to_main_keyboard), END)
      [] awaiting = "honeypot_ip" ->
            simple_lookup(r, env, "honeypot_score", text,
                          format_honeypot_score(env.up))
      [] awaiting = "scan_ip" ->
            return(reply_html(drop(r, "awaiting"), env,
                              Msg("confirm_scan", text,
                                  confirm_scan_keyboard(text))), END)
      [] OTHER ->
            IF startswith(text, <<"/">>) THEN return(r, END)
            ELSE return(_execute_search(r, env, text, 1, NoFacets), END)

handle_default_param(upd, r, env) ==
    LET r0 == answer(r, env, FALSE)
        data == upd.data
        parts == split2(data)
    IN
    IF startswith(data, <<"default", ":">>) /\ Len(parts) = 3
    THEN LET param_name == parts[2]
             param_value == parts[3]
             tmpl == get_template_by_id(get(r0.ud, "current_template", NoId))
         IN
         IF tmpl = None THEN return(r0, END)
         ELSE IF ~has(r0.ud, "template_values") THEN raise(r0)     \* KeyError
         ELSE LET r1 == set(r0, "template_values",
                            put(r0.ud["template_values"], param_name,
                                param_value))
                  r2 == set(r1, "param_index", get(r0.ud, "param_index", 0) + 1)
              IN _ask_next_param(upd, r2, env)
    ELSE return(r0, END)

----------------------------------------------------------------------------
(* Callback router (handlers.py:380-615) *)

\* int(s) of a decimal string; is_int(s) is false where int raises ValueError
MaxInt == 12
is_int(s) == Len(s) = 1 /\ \E n \in 0..MaxInt : ToString(n) = s[1]
int(s) == CHOOSE n \in 0..MaxInt : ToString(n) = s[1]

\* try: reply_text(m) / except: reply_text(m_err), the latter outside the try
try_reply_text(r, env, m, m_err) ==
    IF r.exc THEN r
    ELSE LET a == Attempt(r, env, m, TRUE)
             r1 == [r EXCEPT !.fx = Append(@, a)]
         IN IF a.ok THEN r1 ELSE reply_text(r1, env, m_err)

NotFound == Msg("template_not_found", <<>>, <<>>)

\* variant: the prompt is sent and the awaited kind left as it was
prompt_button_unset(r, env, what, kind, state) ==
    return(reply_text(r, env, Prompt(what)), state)

\* variant: the prompt opens a conversation only while the account cache is
\* unset
prompt_button_once(r, env, what, kind, state) ==
    return(set(reply_text(r, env, Prompt(what)), "awaiting", kind),
           IF r.cache = "None" THEN state ELSE END)

\* a prompting button: the prompt, then the awaited-input kind
prompt_button(r, env, what, kind, state) ==
    return(set(reply_text(r, env, Prompt(what)), "awaiting", kind), state)

\* variant: values and index of an earlier selection are kept
use_template_keep(upd, r0, env, tmpl_id) ==
    LET tmpl == get_template_by_id(tmpl_id) IN
    IF tmpl = None THEN return(reply_text(r0, env, NotFound), END)
    ELSE LET r1 == set(r0, "current_template", tmpl_id)
             r2 == set(r1, "template_values",
                       get(r1.ud, "template_values", EmptyDict))
             r3 == set(r2, "param_index", get(r2.ud, "param_index", 0))
         IN _ask_next_param(upd, r3, env)

\* the "use:" branch: a fresh selection, then the first prompt
use_template(upd, r0, env, tmpl_id) ==
    LET tmpl == get_template_by_id(tmpl_id) IN
    IF tmpl = None THEN return(reply_text(r0, env, NotFound), END)
    ELSE LET r1 == set(r0, "current_template", tmpl_id)
             r2 == set(r1, "template_values", EmptyDict)
             r3 == set(r2, "param_index", 0)
         IN _ask_next_param(upd, r3, env)

\* variant: the example button starts the parameter collection
run_example_collect(upd, r, env, tmpl_id) ==
    use_template(upd, r, env, tmpl_id)

\* the example: branch of callback_handler (handlers.py:543-554)
run_example(upd, r, env, tmpl_id) ==
    LET tmpl == get_template_by_id(tmpl_id) IN
    IF tmpl = None THEN return(reply_text(r, env, NotFound), END)
    ELSE LET r1 == reply_text(r, env, Msg("running", tmpl.example, <<>>))
         IN return(_execute_search(r1, env, tmpl.example, 1, tmpl.facets), END)

callback_handler(upd, r, env) ==
    LET r0 == answer(r, env, FALSE)
        data == upd.data
    IN
    IF data = Tok("menu", <<"main">>) THEN
        return(reply_text(r0, env, Msg("welcome", <<>>, main_menu_keyboard)), END)
    ELSE IF data = Tok("menu", <<"templates">>) THEN
        return(reply_text(r0, env, Msg("categories", <<>>, categories_keyboard)),
               END)
    ELSE IF data = Tok("menu", <<"host">>) THEN
        prompt_button(r0, env, "prompt_host_ip", "host_ip", STATE_WAITING_HOST_IP)
    ELSE IF data = Tok("menu", <<"dns">>) THEN
        return(reply_text(r0, env, Msg("dns_menu", <<>>, dns_menu_keyboard)), END)
    ELSE IF data = Tok("menu", <<"exploits">>) THEN
        prompt_button(r0, env, "prompt_exploit_query", "exploit_query",
                      STATE_WAITING_EXPLOIT)
    ELSE IF data = Tok("menu", <<"vuln">>) THEN
        LET ts == get_templates_by_category(<<"vuln">>)
            buttons == [i \in DOMAIN ts |-> Tok("tmpl", <<ts[i].id>>)]
                           \o <<Tok("menu", <<"main">>)>>
        IN return(reply_text(r0, env, Msg("vuln_menu", <<>>, buttons)), END)
    ELSE IF data = Tok("menu", <<"raw">>) THEN
        prompt_button(r0, env, "prompt_raw_query", "raw_query",
                      STATE_WAITING_RAW_QUERY)
    ELSE IF data = Tok("menu", <<"count">>) THEN
        prompt_button(r0, env, "prompt_count_query", "count_query",
                      STATE_WAITING_COUNT_QUERY)
    ELSE IF data = Tok("cmd", <<"info">>) THEN
        LET r1 == api_info(r0, env, TRUE) IN
        IF info_raised(r0, env)
        THEN return(reply_text(r1, env, ErrorMsg("error")), END)
        ELSE return(try_reply_text(r1, env,
                                   Msg("api_info", <<r1.cache>>,
                                       back_to_main_keyboard),
                                   ErrorMsg("error")), END)
    ELSE IF data = Tok("cmd", <<"filters">>) THEN
        return(reply_text(r0, env, Prompt("filters_help")), END)
    ELSE IF data = Tok("cmd", <<"help">>) THEN
        return(reply_text(r0, env, Msg("welcome", <<>>, main_menu_keyboard)), END)
    ELSE IF startswith(data, <<"cat", ":">>) THEN
        LET cat_id == after(data, 2) IN
        return(reply_text(r0, env, Msg("category", cat_id,
                                       templates_in_category_keyboard(cat_id))),
               END)
    ELSE IF startswith(data, <<"tmpl", ":">>) THEN
        LET tmpl == get_template_by_id(after(data, 2)) IN
        IF tmpl = None THEN return(reply_text(r0, env, NotFound), END)
        ELSE return(reply_text(r0, env, Msg("template_detail", <<tmpl.id>>,
                                            template_detail_keyboard(tmpl))),
                    END)
    ELSE IF startswith(data, <<"use", ":">>) THEN
        use_template(upd, r0, env, after(data, 2))
    ELSE IF startswith(data, <<"example", ":">>) THEN
        run_example(upd, r0, env, after(data, 2))
    ELSE IF startswith(data, <<"page", ":">>) THEN
        LET parts == split2(data) IN
        IF Len(parts) = 3
        THEN IF ~is_int(parts[2]) THEN raise(r0)                  \* ValueError
             ELSE return(_execute_search(r0, env, parts[3], int(parts[2]),
                                         NoFacets), END)
        ELSE return(r0, END)
    ELSE IF data = Tok("dns", <<"resolve">>) THEN
        prompt_button(r0, env, "prompt_dns_resolve", "dns_resolve",
                      STATE_WAITING_DNS)
    ELSE IF data = Tok("dns", <<"reverse">>) THEN
        prompt_button(r0, env, "prompt_dns_reverse", "dns_reverse",
                      STATE_WAITING_DNS)
    ELSE IF data = Tok("dns", <<"domain">>) THEN
        prompt_button(r0, env, "prompt_dns_domain", "dns_domain",
                      STATE_WAITING_DNS)
    ELSE IF startswith(data, <<"doscan", ":">>) THEN
        LET ip == after(data, 2)
            r1 == call(r0, env, "scan", ip, 1, NoFacets, TRUE)
        IN return(try_reply_text(r1, env,
                                 Msg(format_scan_result(env.up), ip,
                                     back_to_main_keyboard),
                                 ErrorMsg("error")), END)
    ELSE return(r0, END)

----------------------------------------------------------------------------
(* Authorization gate (handlers.py:78-95) and the global error handler *)

\* variant: an empty allow-list admits nobody
IsDenied_closed(user) == user \notin allow

IsDenied(user) == allow # {} /\ user \notin allow

Body(h, upd, r, env) ==
    CASE h = "cmd_start" -> cmd_start(upd, r, env)
      [] h = "cmd_help" -> cmd_help(upd, r, env)
      [] h = "cmd_templates" -> cmd_templates(upd, r, env)
      [] h = "cmd_search" -> cmd_search(upd, r, env)
      [] h = "cmd_count" -> cmd_count(upd, r, env)
      [] h = "cmd_host" -> cmd_host(upd, r, env)
      [] h = "cmd_dns" -> cmd_dns(upd, r, env)
      [] h = "cmd_rdns" -> cmd_rdns(upd, r, env)
      [] h = "cmd_domain" -> cmd_domain(upd, r, env)
      [] h = "cmd_exploit" -> cmd_exploit(upd, r, env)
      [] h = "cmd_honeypot" -> cmd_honeypot(upd, r, env)
      [] h = "cmd_scan" -> cmd_scan(upd, r, env)
      [] h = "cmd_scanstatus" -> cmd_scanstatus(upd, r, env)
      [] h = "cmd_info" -> cmd_info(upd, r, env)
      [] h = "cmd_filters" -> cmd_filters(upd, r, env)
      [] h = "callback_handler" -> callback_handler(upd, r, env)
      [] h = "handle_param_input" -> handle_param_input(upd, r, env)
      [] h = "handle_default_param" -> handle_default_param(upd, r, env)

\* the wrapper every handler is decorated with
authorized(h, upd, r, env) ==
    IF IsDenied(upd.user)
    THEN IF upd.kind = "callback"
         THEN return(answer(r, env, TRUE), END)
         ELSE return(reply_text(r, env, Msg("denied", <<upd.user>>, <<>>)), END)
    ELSE Body(h, upd, r, env)

\* error_handler: one send attempt, a failure of it is logged
error_handler(r, env) ==
    [r EXCEPT !.fx = Append(@, Attempt(r, env, ErrorMsg("unhandled_error"),
                                       TRUE))]

----------------------------------------------------------------------------
(* The ConversationHandler built by _build_application (bot_app.py:54-117) *)

Cmd(name, cb) == [type |-> "command", arg |-> name, callback |-> cb]
Cbq(pattern, cb) == [type |-> "callback", arg |-> pattern, callback |-> cb]
Txt(cb) == [type |-> "text", arg |-> "", callback |-> cb]

entry_points ==
    <<Cmd("start", "cmd_start"), Cmd("help", "cmd_help"),
      Cmd("templates", "cmd_templates"), Cmd("t", "cmd_templates"),
      Cmd("search", "cmd_search"), Cmd("count", "cmd_count"),
      Cmd("host", "cmd_host"), Cmd("dns", "cmd_dns"), Cmd("rdns", "cmd_rdns"),
      Cmd("domain", "cmd_domain"), Cmd("exploit", "cmd_exploit"),
      Cmd("honeypot", "cmd_honeypot"), Cmd("scan", "cmd_scan"),
      Cmd("scanstatus", "cmd_scanstatus"), Cmd("info", "cmd_info"),
      Cmd("filters", "cmd_filters"), Cbq("", "callback_handler")>>

WaitingHandlers ==
    <<Cbq("", "callback_handler"), Txt("handle_param_input")>>

states(state) ==
    IF state = STATE_WAITING_PARAM
    THEN <<Cbq("default", "handle_default_param")>> \o WaitingHandlers
    ELSE IF state \in WaitingStates THEN WaitingHandlers
    ELSE <<>>

fallbacks ==
    <<Cmd("start", "cmd_start"), Cmd("help", "cmd_help"),
      Cbq("", "callback_handler"), Txt("handle_param_input")>>

\* variant: the handler is built without re-entry
allow_reentry_off == FALSE

allow_reentry == TRUE

\* Handler.check_update of CommandHandler, CallbackQueryHandler (with its
\* pattern matched at the start of the data) and MessageHandler(TEXT & ~COMMAND)
matches(h, upd) ==
    /\ h.type = upd.kind
    /\ h.type = "command" => h.arg = upd.name
    /\ h.type = "callback" =>
          (h.arg = "" \/ startswith(upd.data, <<h.arg, ":">>))

\* the callback of the first handler of hs that matches, or "NONE"
first_match(hs, upd) ==
    IF \E i \in DOMAIN hs : matches(hs[i], upd)
    THEN hs[CHOOSE i \in DOMAIN hs :
                /\ matches(hs[i], upd)
                /\ \A j \in 1..(i - 1) : ~matches(hs[j], upd)].callback
    ELSE "NONE"

\* ConversationHandler.check_update: entry points first when there is no
\* conversation or re-entry is allowed, then the handlers of the current
\* state, then the fallbacks
check_update(state, upd) ==
    LET entry == IF state = END \/ allow_reentry
                 THEN first_match(entry_points, upd) ELSE "NONE"
    IN IF entry # "NONE" THEN entry
       ELSE IF state = END THEN "NONE"
       ELSE LET in_state == first_match(states(state), upd) IN
            IF in_state # "NONE" THEN in_state
            ELSE first_match(fallbacks, upd)

\* Application.process_update for one update: the selected handler runs on
\* the sender's user_data; its return value becomes the state of the
\* (chat, user) conversation, unless an exception escaped, which leaves the
\* state alone and runs error_handler
outcome(upd, h, done) ==
    [handler |-> h, ud |-> done.ud, cache |-> done.cache,
     state |-> IF done.exc THEN conv[<<upd.chat, upd.user>>] ELSE done.ret,
     exc |-> done.exc, fx |-> done.fx]

settle(upd, env, h, r) ==
    IF r.exc THEN outcome(upd, h, error_handler(r, env))
    ELSE outcome(upd, h, r)

dispatch(upd, env, h) ==
    IF h = "NONE"
    THEN [handler |-> h, ud |-> user_data[upd.user], cache |-> info_cache,
          state |-> conv[<<upd.chat, upd.user>>], exc |-> FALSE, fx |-> <<>>]
    ELSE settle(upd, env, h,
                authorized(h, upd, Start(user_data[upd.user], info_cache), env))

process_update(upd, env) ==
    dispatch(upd, env, check_update(conv[<<upd.chat, upd.user>>], upd))

----------------------------------------------------------------------------
(* Updates *)

Commands ==
    {"start", "help", "templates", "t", "search", "count", "host", "dns",
     "rdns", "domain", "exploit", "honeypot", "scan", "scanstatus", "info",
     "filters"}

ArgLists == {<<>>, <<"a", "b">>}

Texts == {<<"a">>, <<WS, "b", WS>>}

Datas ==
    {Tok("menu", <<x>>) : x \in {"main", "templates", "host", "dns", "exploits",
                                 "vuln", "raw", "count"}}
    \cup {Tok("cmd", <<x>>) : x \in {"info", "filters", "help"}}
    \cup {Tok(ns, <<x>>) : ns \in {"tmpl", "use", "example"},
                           x \in {"net_provider", "region_overview", "bad"}}
    \cup {Tok("dns", <<x>>) : x \in {"resolve", "reverse", "domain"}}
    \cup {Tok("cat", <<"network">>), Tok("doscan", <<"a">>), <<"noop">>,
          <<"zzz">>,
          Tok("page", <<"2", ":", "a">>), Tok("page", <<"x", ":", "a">>),
          Tok("page", <<"2">>),
          Tok("default", <<"org", ":", "Telkom Indonesia">>),
          Tok("default", <<"country", ":", "ID">>),
          Tok("default", <<"org">>)}

Envs == IF lossy THEN Lossy ELSE Reliable

\* the environments of an update that cannot reach dns_domain: the answer to
\* a second request is never asked for, one value of it stands for all
PlainEnvs == {e \in Envs : e.up = "error" => e.up2 = "error"}

\* u2 is the outsider of the deployment that has an allow-list
Senders == IF allow = {} THEN {k \in Keys : k[2] = "u1"} ELSE Keys

\* the handlers of these commands do not read context.args
NoArgCommands == {"start", "help", "templates", "t", "info", "filters"}

\* no update has been traced yet
Running == last.kind = "none"

\* One update is handled.  A traced step records the update, the handler
\* selected and the effects in last, handler and fx; an untraced step leaves
\* them empty.  In Spec a traced step ends the behaviour.
Handle(upd, env, traced) ==
    \E out \in {process_update(upd, env)} :
        /\ conv' = [conv EXCEPT ![<<upd.chat, upd.user>>] = out.state]
        /\ user_data' = [user_data EXCEPT ![upd.user] = out.ud]
        /\ info_cache' = out.cache
        /\ IF traced
           THEN last' = upd /\ handler' = out.handler /\ fx' = out.fx
           ELSE UNCHANGED <<last, handler, fx>>
        /\ UNCHANGED <<allow, lossy, pure_in, pure_out>>

Apply(upd, env, traced) ==
    /\ traced \/ nEvents < MaxEvents
    /\ Handle(upd, env, traced)
    /\ nEvents' = nEvents + 1
    /\ UNCHANGED <<tasks, web, log>>

CommandUpdate(key, name, args) ==
    [kind |-> "command", chat |-> key[1], user |-> key[2],
     name |-> name, args |-> args]

CallbackUpdate(key, data) ==
    [kind |-> "callback", chat |-> key[1], user |-> key[2], data |-> data]

TextUpdate(key, text) ==
    [kind |-> "text", chat |-> key[1], user |-> key[2], text |-> text]

Command ==
    /\ Running
    /\ \E key \in Senders, name \in Commands, args \in ArgLists :
        /\ name \in NoArgCommands => args = <<>>
        /\ \E env \in IF name = "domain" THEN Envs ELSE PlainEnvs,
              traced \in BOOLEAN :
            Apply(CommandUpdate(key, name, args), env, traced)

Callback ==
    /\ Running
    /\ \E key \in Senders, data \in Datas, env \in PlainEnvs,
          traced \in BOOLEAN :
        Apply(CallbackUpdate(key, data), env, traced)

TextMessage ==
    /\ Running
    /\ \E key \in Senders, text \in Texts, env \in Envs, traced \in BOOLEAN :
        Apply(TextUpdate(key, text), env, traced)

\* _application = None (bot_app.py:30): nothing built, nothing initialized
NoApplication == [instance |-> "None", builds |-> 0, initialized |-> FALSE]

\* the process after start, but for the allow-list
InitState ==
    /\ conv = [k \in Keys |-> END]
    /\ user_data = [u \in Users |-> EmptyDict]
    /\ info_cache = "None"
    /\ last = [kind |-> "none"]
    /\ handler = "NONE"
    /\ fx = <<>>
    /\ nEvents = 0
    /\ tasks = {}
    /\ _application = NoApplication
    /\ requests = <<>>
    /\ log = <<>>

InitProgram == allow \in AllowLists /\ InitState

NoInput == [kind |-> "none"]
Pending == [done |-> FALSE]

InitCommon == InitProgram /\ pure_in = NoInput /\ pure_out = Pending

Init == InitCommon /\ lossy = FALSE

InitLossy == InitCommon /\ lossy = TRUE

Next == Command \/ Callback \/ TextMessage

Spec == Init /\ [][Next]_vars

SpecLossy == InitLossy /\ [][Next]_vars

----------------------------------------------------------------------------
(* pagination_keyboard applied to a range of arguments (keyboards.py:92-108) *)

MaxTotal == 13
MaxPerPage == 5
MaxPage == 12

PageQuery == <<"a">>

PageInputs ==
    [kind : {"page"}, total : 0..MaxTotal, per_page : 1..MaxPerPage,
     current_page : 1..MaxPage]

InitPages ==
    /\ InitProgram
    /\ lossy = FALSE
    /\ pure_in \in PageInputs
    /\ pure_out = Pending

RenderPage ==
    /\ ~pure_out.done
    /\ pure_out' =
          [done |-> TRUE,
           kb |-> pagination_keyboard_for(PageQuery, pure_in.current_page,
                                          pure_in.total, pure_in.per_page),
           label |-> page_label(pure_in.current_page, pure_in.total,
                                pure_in.per_page)]
    /\ UNCHANGED <<allow, conv, user_data, info_cache, last, handler, fx, lossy,
                   nEvents, pure_in, tasks, web, log>>

SpecPages == InitPages /\ [][RenderPage]_vars

----------------------------------------------------------------------------
(* Browsing: a page-1 search, then only presses of the page buttons that   *)
(* the latest result message carries                                       *)

\* the page buttons among the keyboards of the messages sent
PageButtons(effects) ==
    UNION {{effects[i].kb[j] :
               j \in {n \in DOMAIN effects[i].kb : effects[i].kb[n][1] = "page"}} :
           i \in {n \in DOMAIN effects : effects[n].t = "send"}}

FirstSearches(key) ==
    {CommandUpdate(key, "search", <<"a", "b">>),
     CallbackUpdate(key, Tok("example", <<"net_provider">>)),
     CallbackUpdate(key, Tok("example", <<"region_overview">>))}

StartSearch ==
    /\ Running
    /\ \E key \in {k \in Keys : k[2] = "u1"}, env \in Envs :
        \E upd \in FirstSearches(key) : Handle(upd, env, TRUE)
    /\ UNCHANGED <<nEvents, tasks, web, log>>

PressPage ==
    /\ ~Running
    /\ \E token \in PageButtons(fx), env \in Envs :
        Handle(CallbackUpdate(<<last.chat, last.user>>, token), env, TRUE)
    /\ UNCHANGED <<nEvents, tasks, web, log>>

NextBrowse == StartSearch \/ PressPage

SpecBrowse == Init /\ [][NextBrowse]_vars

----------------------------------------------------------------------------
(* build_query applied to the catalog templates and to value maps whose    *)
(* values may hold placeholder text (templates.py:598-605), next to the    *)
(* example button of the same template (handlers.py:543-554)               *)

MaxValueLen == 1

ValueAtoms == {"x", "{country}", "{org}"}

BoundedSeq(S, n) == UNION {[1..k -> S] : k \in 1..n}

\* what a user may supply for a parameter: free text, or the example value
ValueTexts ==
    BoundedSeq(ValueAtoms, MaxValueLen)
    \cup UNION {{TEMPLATES[i].params[j].placeholder :
                     j \in DOMAIN TEMPLATES[i].params} : i \in DOMAIN TEMPLATES}

ParamKeys(T) == {<<T.params[i].name>> : i \in DOMAIN T.params}

ValueMaps(T) == UNION {[K -> ValueTexts] : K \in SUBSET ParamKeys(T)}

BuildInputs ==
    UNION {{[kind |-> "build", template |-> TEMPLATES[i], values |-> V] :
               V \in ValueMaps(TEMPLATES[i])} : i \in DOMAIN TEMPLATES}

InitBuild ==
    /\ InitProgram
    /\ lossy = FALSE
    /\ pure_in \in BuildInputs
    /\ pure_out = Pending

BuildQuery ==
    /\ ~pure_out.done
    /\ pure_out' = [done |-> TRUE,
                    query |-> build_query(pure_in.template, pure_in.values)]
    /\ UNCHANGED <<allow, conv, user_data, info_cache, last, handler, fx, lossy,
                   nEvents, pure_in, tasks, web, log>>

\* the example button of the same template is pressed
RunExample ==
    /\ Running
    /\ \E key \in Senders, env \in Envs :
        Handle(CallbackUpdate(key, Tok("example", <<pure_in.template.id>>)),
               env, TRUE)
    /\ UNCHANGED <<nEvents, tasks, web, log>>

NextBuild == BuildQuery \/ RunExample

SpecBuild == InitBuild /\ [][NextBuild]_vars

----------------------------------------------------------------------------
(* Serving updates: in polling mode the Application takes one update from  *)
(* its queue and awaits its handling before taking the next (bot.py:101,   *)
(* run_polling without concurrent updates); in webhook mode every HTTP     *)
(* request is a coroutine of its own that awaits process_update            *)
(* (function_app.py:23-49), and a coroutine yields at each await of a      *)
(* handler.  The work of a handler is placed at the end of its handling.   *)

Modes == {"polling", "webhook"}

ServedUpdates(key) ==
    {CallbackUpdate(key, Tok("use", <<"region_overview">>)),
     TextUpdate(key, <<"a">>),
     CommandUpdate(key, "host", <<>>)}

InitServe ==
    /\ InitProgram
    /\ lossy = FALSE
    /\ pure_in \in [kind : {"serve"}, mode : Modes]
    /\ pure_out = Pending

\* an update arrives and its handling begins
Receive ==
    /\ nEvents < MaxEvents
    /\ pure_in.mode = "polling" => tasks = {}
    /\ \E key \in Senders, env \in Envs :
        \E upd \in ServedUpdates(key) :
            tasks' = tasks \cup {[n |-> nEvents + 1, upd |-> upd, env |-> env]}
    /\ nEvents' = nEvents + 1
    /\ UNCHANGED <<allow, conv, user_data, info_cache, last, handler, fx, lossy,
                   pure_in, pure_out, web, log>>

\* the handling of an update ends
Finish ==
    \E t \in tasks :
        /\ Handle(t.upd, t.env, TRUE)
        /\ tasks' = tasks \ {t}
        /\ UNCHANGED <<nEvents, web, log>>

NextServe == Receive \/ Finish

SpecServe == InitServe /\ [][NextServe]_vars

----------------------------------------------------------------------------
(* The webhook entry point (function_app.py:23-49) on the shared instance  *)
(* of get_application (bot_app.py:124-133).  Every request is a coroutine; *)
(* what it does between two awaits is one step, and it is suspended at     *)
(* the await of initialize, at the entry and the exit of "async with" and  *)
(* inside process_update.                                                  *)

\* the body of a request: the JSON of an update, or text json.loads refuses
Garbage == [kind |-> "garbage"]

\* the updates posted: a template is chosen and its parameter given
PostedUpdates ==
    {CallbackUpdate(<<"c1", "u1">>, Tok("use", <<"region_overview">>)),
     TextUpdate(<<"c1", "u1">>, <<"a">>)}

Bodies == {Garbage} \cup {[kind |-> "json", upd |-> upd] : upd \in PostedUpdates}

\* variant: a failure is answered as a server error
failure_response_500 == [status_code |-> 500, body |-> "error"]

\* the two HttpResponse values of telegram_webhook
failure_response == [status_code |-> 200, body |-> "error"]
success_response == [status_code |-> 200, body |-> ""]

NoResponse == [status_code |-> 0, body |-> ""]

InitWebhook ==
    /\ InitProgram
    /\ lossy = FALSE
    /\ pure_in = NoInput
    /\ pure_out = Pending

\* what "return _application" hands to the caller
returned(app) == IF app.initialized THEN "initialized" ELSE "uninitialized"

\* a request moves to position pc, having received the instance in state got
at(i, pc, got) == [requests EXCEPT ![i].pc = pc, ![i].got = got]

\* the request returns a response
respond(i, response) ==
    [requests EXCEPT ![i].pc = "done", ![i].response = response]

\* from the return of get_application to the entry of "async with": the body
\* is decoded and parsed, a failure goes to the except branch
parse(i, got) ==
    IF requests[i].body.kind = "garbage"
    THEN [respond(i, failure_response) EXCEPT ![i].got = got]
    ELSE at(i, "enter", got)

\* Telegram posts an update
Post ==
    /\ nEvents < MaxEvents
    /\ \E body \in Bodies :
        requests' = Append(requests, [body |-> body, pc |-> "start",
                                      got |-> "nothing",
                                      response |-> NoResponse])
    /\ nEvents' = nEvents + 1
    /\ UNCHANGED <<allow, conv, user_data, info_cache, last, handler, fx, lossy,
                   pure_in, pure_out, tasks, _application, log>>

\* get_application up to its first await or its return: the test of the
\* global, the construction (which may raise) and the assignment are one step
get_application ==
    \E i \in DOMAIN requests :
        /\ requests[i].pc = "start"
        /\ IF _application.instance = "None"
           THEN \E built \in BOOLEAN :
                  IF built
                  THEN /\ _application' = [instance |-> "app",
                                           builds |-> _application.builds + 1,
                                           initialized |-> FALSE]
                       /\ requests' = at(i, "initialize", "nothing")
                  ELSE /\ requests' = respond(i, failure_response)
                       /\ UNCHANGED _application
           ELSE /\ requests' = parse(i, returned(_application))
                /\ UNCHANGED _application
        /\ UNCHANGED <<allow, conv, user_data, info_cache, last, handler, fx,
                       lossy, nEvents, pure_in, pure_out, tasks, log>>

\* await _application.initialize() ends: it completed, or it raised
initialize ==
    \E i \in DOMAIN requests, ok \in BOOLEAN :
        /\ requests[i].pc = "initialize"
        /\ IF ok
           THEN /\ _application' = [_application EXCEPT !.initialized = TRUE]
                /\ requests' = parse(i, returned(_application'))
           ELSE /\ requests' = respond(i, failure_response)
                /\ UNCHANGED _application
        /\ UNCHANGED <<allow, conv, user_data, info_cache, last, handler, fx,
                       lossy, nEvents, pure_in, pure_out, tasks, log>>

\* "async with telegram_app" is entered, or its entry raised
Enter ==
    \E i \in DOMAIN requests, ok \in BOOLEAN :
        /\ requests[i].pc = "enter"
        /\ requests' = IF ok THEN at(i, "process", requests[i].got)
                       ELSE respond(i, failure_response)
        /\ UNCHANGED <<allow, conv, user_data, info_cache, last, handler, fx,
                       lossy, nEvents, pure_in, pure_out, tasks, _application, log>>

\* await telegram_app.process_update(update) ends: the update was handled,
\* or the call raised
Process ==
    \E i \in DOMAIN requests, ok \in BOOLEAN :
        /\ requests[i].pc = "process"
        /\ IF ok
           THEN /\ \E env \in PlainEnvs :
                      Handle(requests[i].body.upd, env, TRUE)
                /\ requests' = at(i, "exit", requests[i].got)
           ELSE /\ requests' = respond(i, failure_response)
                /\ UNCHANGED <<allow, conv, user_data, info_cache, last, handler,
                               fx, lossy, pure_in, pure_out>>
        /\ UNCHANGED <<nEvents, tasks, _application, log>>

\* "async with" is left and the response returned, or its exit raised
Exit ==
    \E i \in DOMAIN requests, ok \in BOOLEAN :
        /\ requests[i].pc = "exit"
        /\ requests' = respond(i, IF ok THEN success_response
                                  ELSE failure_response)
        /\ UNCHANGED <<allow, conv, user_data, info_cache, last, handler, fx,
                       lossy, nEvents, pure_in, pure_out, tasks, _application, log>>

telegram_webhook == get_application \/ initialize \/ Enter \/ Process \/ Exit

NextWebhook == Post \/ telegram_webhook

SpecWebhook == InitWebhook /\ [][NextWebhook]_vars

----------------------------------------------------------------------------
(* A scan dialogue: /scan <ip> is answered with a confirmation prompt, and *)
(* the doscan button of a prompt stays under its message, where it can be  *)
(* pressed at any later time (handlers.py:594-610 does not edit or delete  *)
(* the prompt).  The log keeps what the bot did for the updates so far.    *)

ScanArgs == {<<"a", "b">>, <<"b">>}

\* the conversation of the dialogue
ScanKey == <<"c1", "u1">>

\* the doscan buttons among the keyboards of the messages delivered
ScanButtons(effects) ==
    UNION {{effects[i].kb[j] :
               j \in {n \in DOMAIN effects[i].kb : effects[i].kb[n][1] = "doscan"}} :
           i \in {n \in DOMAIN effects : effects[n].t = "send" /\ effects[n].ok}}

\* /scan <ip> is sent
AskScan ==
    /\ nEvents <= MaxEvents
    /\ \E args \in ScanArgs, env \in PlainEnvs :
        Handle(CommandUpdate(ScanKey, "scan", args), env, TRUE)
    /\ log' = log \o fx'
    /\ nEvents' = nEvents + 1
    /\ UNCHANGED <<tasks, web>>

\* a doscan button on screen is pressed
PressScan ==
    /\ nEvents <= MaxEvents
    /\ \E token \in ScanButtons(log), env \in PlainEnvs :
        Handle(CallbackUpdate(ScanKey, token), env, TRUE)
    /\ log' = log \o fx'
    /\ nEvents' = nEvents + 1
    /\ UNCHANGED <<tasks, web>>

NextScan == AskScan \/ PressScan

SpecScan == Init /\ [][NextScan]_vars

----------------------------------------------------------------------------
(* The allow-list as config.py:12-16 reads it from the AUTHORIZED_USERS    *)
(* setting: the text is split at commas, every piece stripped, the pieces  *)
(* that are digit strings kept and converted.  A setting is a sequence of  *)
(* characters; u1 has the Telegram id 1 and u2 the id 2.                   *)

MaxSettingLen == 3

Digits == {"0", "1", "2"}

SettingChars == Digits \cup {"x", ",", WS}

Settings == {<<>>} \cup BoundedSeq(SettingChars, MaxSettingLen)

\* s.split(","): the pieces between the commas, at least one
RECURSIVE split_commas(_, _)
split_commas(s, piece) ==
    IF s = <<>> THEN <<piece>>
    ELSE IF Head(s) = "," THEN <<piece>> \o split_commas(Tail(s), <<>>)
    ELSE split_commas(Tail(s), Append(piece, Head(s)))

\* str.isdigit(): not empty and digits only
isdigit(s) == s # <<>> /\ \A i \in DOMAIN s : s[i] \in Digits

\* int(s) of a digit string
RECURSIVE to_int(_)
to_int(s) ==
    IF s = <<>> THEN 0
    ELSE 10 * to_int(SubSeq(s, 1, Len(s) - 1))
         + (CHOOSE d \in 0..9 : ToString(d) = s[Len(s)])

\* the identity that has the Telegram id n
UserOfId(n) == "u" \o ToString(n)

\* [int(uid.strip()) for uid in setting.split(",") if uid.strip().isdigit()]
parse_allow(setting) ==
    LET pieces == split_commas(setting, <<>>) IN
    {UserOfId(to_int(strip(pieces[i]))) :
        i \in {n \in DOMAIN pieces : isdigit(strip(pieces[n]))}}

InitConfig ==
    /\ InitState
    /\ lossy = FALSE
    /\ pure_in \in [kind : {"config"}, setting : Settings]
    /\ allow = parse_allow(pure_in.setting)
    /\ pure_out = Pending

KnockUpdates(key) ==
    {CommandUpdate(key, "start", <<>>), CallbackUpdate(key, <<"noop">>),
     TextUpdate(key, <<"a">>)}

\* an identity, listed or not, sends an update
Knock ==
    /\ nEvents < MaxEvents
    /\ \E key \in Keys, env \in PlainEnvs :
        \E upd \in KnockUpdates(key) : Handle(upd, env, TRUE)
    /\ nEvents' = nEvents + 1
    /\ UNCHANGED <<tasks, web, log>>

SpecConfig == InitConfig /\ [][Knock]_vars

----------------------------------------------------------------------------
(* Vocabulary of the properties *)

Traced == last.kind # "none"

\* an identity that a configured allow-list does not contain
Outsider(user) == allow # {} /\ user \notin allow

\* s without its leading and trailing whitespace
Trimmed(s) ==
    LET solid == {i \in DOMAIN s : s[i] # WS} IN
    IF solid = {} THEN <<>>
    ELSE SubSeq(s, CHOOSE i \in solid : \A j \in solid : i <= j,
                   CHOOSE i \in solid : \A j \in solid : i >= j)

KeyOf(upd) == <<upd.chat, upd.user>>

\* the session of a conversation as the handlers see it
Awaiting(ud) == get(ud, "awaiting", "none")
NoSelection(ud) ==
    /\ ~has(ud, "current_template")
    /\ ~has(ud, "template_values")
    /\ ~has(ud, "param_index")

\* AWAITING_TEMPLATE_PARAM(T, i) in conversation key, for conversation states
\* cv and user data uds
InParam(cv, uds, key, T, i) ==
    /\ cv[key] = STATE_WAITING_PARAM
    /\ Awaiting(uds[key[2]]) = "template_param"
    /\ get(uds[key[2]], "current_template", NoId) = <<T.id>>
    /\ has(uds[key[2]], "template_values")
    /\ get(uds[key[2]], "param_index", -1) = i

ApiCalls(effects) == SelectSeq(effects, LAMBDA e : e.t = "api")
Searches(effects) ==
    SelectSeq(effects, LAMBDA e : e.t = "api" /\ e.op = "search")
Sent(effects, what) ==
    SelectSeq(effects, LAMBDA e : e.t = "send" /\ e.what = what)

\* the default button rendered by the prompt of parameter i of T
DefaultButton(T, i) ==
    Tok("default", <<T.params[i].name, ":">> \o T.params[i].placeholder)

\* a value-input event for parameter i of T: a free-text reply or a press of
\* the default button of the prompt
IsValueInput(upd, T, i) ==
    \/ upd.kind = "text"
    \/ upd.kind = "callback" /\ upd.data = DefaultButton(T, i)

\* the template string of T with every placeholder replaced at once by the
\* collected value, or by the example value where none was collected
RECURSIVE SubstAll(_, _, _)
SubstAll(q, T, values) ==
    IF q = <<>> THEN <<>>
    ELSE LET hits == {i \in DOMAIN T.params :
                         Head(q) = Placeholder(T.params[i].name)}
         IN (IF hits = {} THEN <<Head(q)>>
             ELSE LET p == T.params[CHOOSE i \in hits : TRUE] IN
                  get(values, <<p.name>>, p.placeholder))
            \o SubstAll(Tail(q), T, values)

----------------------------------------------------------------------------
(* C1: starting from a use:T press, a template with N parameters is searched
   after exactly N value-input events, free text or default button in any
   mix: every value-input event in AWAITING_TEMPLATE_PARAM(T, i) moves the
   index to i+1 without a search when i+1 < N, and runs the search and ends
   the conversation when i+1 = N. *)
C1_ExactlyNInputs ==
    [][last'.kind # "none" /\ Running =>
        \A t \in DOMAIN TEMPLATES, i \in 0..1 :
            LET T == TEMPLATES[t]
                key == KeyOf(last')
            IN
            ( /\ i < Len(T.params)
              /\ InParam(conv, user_data, key, T, i)
              /\ IsValueInput(last', T, i + 1) )
            => IF i + 1 = Len(T.params)
               THEN Len(Searches(fx')) = 1 /\ conv'[key] = END
               ELSE Len(Searches(fx')) = 0
                    /\ InParam(conv', user_data', key, T, i + 1)]_vars

(* C2: in AWAITING_TEMPLATE_PARAM(T, i) the default button of the prompt,
   routed through the conversation handler, does what the free text of the
   same value does: same user data, same conversation state, same searches
   and prompts. *)
C2_DefaultEqualsText ==
    \A key \in Keys, t \in DOMAIN TEMPLATES, i \in 0..1 :
        LET T == TEMPLATES[t] IN
        (Running /\ i < Len(T.params) /\ InParam(conv, user_data, key, T, i))
        => \A env \in Reliable :
             LET d == process_update(
                        CallbackUpdate(key, DefaultButton(T, i + 1)), env)
                 x == process_update(
                        TextUpdate(key, T.params[i + 1].placeholder), env)
             IN /\ d.ud = x.ud
                /\ d.state = x.state
                /\ Searches(d.fx) = Searches(x.fx)
                /\ Sent(d.fx, "param_prompt") = Sent(x.fx, "param_prompt")

(* C3: when a free-text reply brings the parameter index to len(T.params),
   exactly one search is executed, on page 1, with T's facet spec and with
   T's template string in which every placeholder carries the collected
   value; afterwards the session has no active template, no collected values
   and no parameter index, and the conversation is IDLE. *)
C3_CompletionSearch ==
    [][last'.kind = "text" /\ Running =>
        \A t \in DOMAIN TEMPLATES :
            LET T == TEMPLATES[t]
                N == Len(T.params)
                key == KeyOf(last')
            IN
            InParam(conv, user_data, key, T, N - 1)
            => LET values == put(user_data[key[2]]["template_values"],
                                 <<T.params[N].name>>, Trimmed(last'.text))
                   calls == ApiCalls(fx')
               IN /\ Len(calls) = 1
                  /\ calls[1].op = "search"
                  /\ calls[1].arg = SubstAll(T.query_template, T, values)
                  /\ calls[1].page = 1
                  /\ calls[1].facets = T.facets
                  /\ NoSelection(user_data'[key[2]])
                  /\ conv'[key] = END]_vars

\* a two-parameter template was completed with the replies "a" and " b ",
\* and a template with facets was completed
C3_Witness ==
    /\ last.kind = "text"
    /\ handler = "handle_param_input"
    /\ conv[KeyOf(last)] = END
    /\ NoSelection(user_data[last.user])
    /\ Len(Searches(fx)) = 1
    /\ Searches(fx)[1].arg = <<"org", ":", "\"", "a", "\"", WS,
                               "country", ":", "\"", "b", "\"">>

(* C4: in every reachable state, a session whose awaited-input kind is
   template-parameter has an active template id. *)
C4_TemplateParamHasTemplate ==
    \A u \in Users :
        Awaiting(user_data[u]) = "template_param"
        => has(user_data[u], "current_template")

(* C5: with a non-empty allow-list that does not contain identity X, no
   update of X changes a session, a conversation or the account cache or
   calls the upstream API, and every handler invoked for X (routed, or the
   free-text and default-button handlers called directly) answers with a
   denial notice; with an empty allow-list no update is denied. *)
DenialIn(effects, upd) ==
    IF upd.kind = "callback"
    THEN \E i \in DOMAIN effects : effects[i].t = "answer" /\ effects[i].alert
    ELSE /\ Len(Sent(effects, "denied")) = 1
         /\ Sent(effects, "denied")[1].arg = <<upd.user>>

DeniedDirectly(h, upd, env) ==
    LET r == authorized(h, upd, Start(user_data[upd.user], info_cache), env)
    IN /\ r.ud = user_data[upd.user]
       /\ r.cache = info_cache
       /\ Len(ApiCalls(r.fx)) = 0
       /\ DenialIn(r.fx, upd)
       /\ r.ret = END

C5_Routed ==
    last'.kind # "none" /\ Running =>
        IF Outsider(last'.user)
        THEN /\ user_data' = user_data
             /\ conv' = conv
             /\ info_cache' = info_cache
             /\ Len(ApiCalls(fx')) = 0
             /\ handler' # "NONE" => DenialIn(fx', last')
        ELSE /\ ~DenialIn(fx', last')
             /\ allow = {} => \A u \in Users : ~Outsider(u)

C5_Direct ==
    Running =>
        \A key \in Keys, env \in Reliable :
            Outsider(key[2]) =>
                /\ \A text \in Texts :
                       DeniedDirectly("handle_param_input",
                                      TextUpdate(key, text), env)
                /\ \A t \in DOMAIN TEMPLATES :
                       DeniedDirectly("handle_default_param",
                                      CallbackUpdate(key,
                                          DefaultButton(TEMPLATES[t], 1)), env)

C5_GateBlocksOutsiders == [][C5_Routed]_vars /\ []C5_Direct

\* the outsider pressed a button while u1 was in a flow, and was denied
C5_Witness ==
    /\ Traced
    /\ allow = {"u1"}
    /\ last.user = "u2"
    /\ handler = "callback_handler"
    /\ DenialIn(fx, last)
    /\ user_data["u2"] = EmptyDict
    /\ conv[<<"c2", "u1">>] # END

(* C6: an update handled for one conversation leaves the awaited-input kind,
   active template, collected values, parameter index and conversation state
   of every other conversation unchanged. *)
SessionFields ==
    {"awaiting", "current_template", "template_values", "param_index"}

SessionOf(cv, uds, key) ==
    [state |-> cv[key],
     data |-> [k \in DOMAIN uds[key[2]] \cap SessionFields |-> uds[key[2]][k]]]

C6_SessionsIsolated ==
    [][last'.kind # "none" /\ Running =>
        \A key \in Keys \ {KeyOf(last')} :
            SessionOf(conv', user_data', key) = SessionOf(conv, user_data, key)
      ]_vars

(* C7: after a use:T press for a template T of the catalog, from any session
   state, the conversation is in AWAITING_TEMPLATE_PARAM(T, 0), the collected
   values are empty, and the one prompt sent asks for T's first parameter. *)
C7_UseStartsFresh ==
    (Traced /\ last.kind = "callback" /\ ~Outsider(last.user)) =>
        \A t \in DOMAIN TEMPLATES :
            LET T == TEMPLATES[t] IN
            last.data = Tok("use", <<T.id>>) =>
                /\ InParam(conv, user_data, KeyOf(last), T, 0)
                /\ user_data[last.user]["template_values"] = EmptyDict
                /\ Len(Sent(fx, "param_prompt")) = 1
                /\ Sent(fx, "param_prompt")[1].arg = <<T.id, T.params[1].name>>
                /\ Sent(fx, "param_prompt")[1].kb[1] = DefaultButton(T, 1)

\* use:region_overview pressed in c1 while u1 had a template flow open in c2
C7_Witness ==
    /\ Traced
    /\ last = CallbackUpdate(<<"c1", "u1">>, Tok("use", <<"region_overview">>))
    /\ InParam(conv, user_data, <<"c1", "u1">>, region_overview, 0)
    /\ conv[<<"c2", "u1">>] = STATE_WAITING_PARAM
    /\ nEvents = 3

(* C8: after a press of menu:main, from any state, the conversation is IDLE,
   the awaited-input kind is none and there is no active template, no
   collected values and no parameter index. *)
C8_MainMenuResets ==
    ( /\ Traced
      /\ last.kind = "callback"
      /\ last.data = Tok("menu", <<"main">>)
      /\ ~Outsider(last.user) )
    => /\ conv[KeyOf(last)] = END
       /\ Awaiting(user_data[last.user]) = "none"
       /\ NoSelection(user_data[last.user])

(* C9: a bare prompting command sent while another flow is in progress takes
   precedence: the session then awaits the command's input kind in the
   command's waiting state, and any free-text message sent next is consumed
   by the command's flow. *)
PromptingCommands ==
    {"search", "count", "host", "dns", "rdns", "domain", "exploit",
     "honeypot", "scan"}

KindOfCommand(name) ==
    CASE name = "search" -> "raw_query"
      [] name = "count" -> "count_query"
      [] name = "host" -> "host_ip"
      [] name = "dns" -> "dns_resolve"
      [] name = "rdns" -> "dns_reverse"
      [] name = "domain" -> "dns_domain"
      [] name = "exploit" -> "exploit_query"
      [] name = "honeypot" -> "honeypot_ip"
      [] name = "scan" -> "scan_ip"

StateOfKind(kind) ==
    CASE kind = "raw_query" -> STATE_WAITING_RAW_QUERY
      [] kind = "count_query" -> STATE_WAITING_COUNT_QUERY
      [] kind = "host_ip" -> STATE_WAITING_HOST_IP
      [] kind \in {"dns_resolve", "dns_reverse", "dns_domain"} ->
            STATE_WAITING_DNS
      [] kind = "exploit_query" -> STATE_WAITING_EXPLOIT
      [] kind = "honeypot_ip" -> STATE_WAITING_HONEYPOT_IP
      [] kind = "scan_ip" -> STATE_WAITING_SCAN_IP

SimpleKinds == {KindOfCommand(c) : c \in PromptingCommands}

OpOfKind(kind) ==
    CASE kind = "raw_query" -> "search"
      [] kind = "count_query" -> "count"
      [] kind = "host_ip" -> "host"
      [] kind = "exploit_query" -> "search_exploits"
      [] kind = "honeypot_ip" -> "honeypot_score"
      [] OTHER -> kind

\* exactly one execution of the action of kind with argument arg: one
\* upstream call of the kind's operation, or for scan-ip one confirmation
\* prompt carrying the doscan button and no upstream call
ActionDone(kind, arg, effects) ==
    IF kind = "scan_ip"
    THEN /\ Len(ApiCalls(effects)) = 0
         /\ Len(Sent(effects, "confirm_scan")) = 1
         /\ Sent(effects, "confirm_scan")[1].kb[1] = Tok("doscan", arg)
    ELSE /\ Len(ApiCalls(effects)) = 1
         /\ ApiCalls(effects)[1].op = OpOfKind(kind)
         /\ ApiCalls(effects)[1].arg = arg

BarePrompting(upd) ==
    /\ upd.kind = "command"
    /\ upd.name \in PromptingCommands
    /\ upd.args = <<>>
    /\ ~Outsider(upd.user)

C9_Precedence ==
    (BarePrompting(last') /\ Running /\ conv[KeyOf(last')] \in WaitingStates)
    => /\ Awaiting(user_data'[last'.user]) = KindOfCommand(last'.name)
       /\ conv'[KeyOf(last')] = StateOfKind(KindOfCommand(last'.name))

C9_NextText ==
    BarePrompting(last) =>
        \A text \in Texts, env \in Reliable :
            LET x == process_update(TextUpdate(KeyOf(last), text), env) IN
            /\ x.handler = "handle_param_input"
            /\ ActionDone(KindOfCommand(last.name), Trimmed(text), x.fx)
            /\ x.state = END

C9_BareCommandPreempts == [][C9_Precedence]_vars /\ []C9_NextText

\* /host sent bare right after use:net_provider in the same chat
C9_Witness ==
    /\ Traced
    /\ last = CommandUpdate(<<"c1", "u1">>, "host", <<>>)
    /\ nEvents = 2
    /\ get(user_data["u1"], "current_template", NoId) = <<"net_provider">>
    /\ conv[<<"c2", "u1">>] = END
    /\ conv[<<"c1", "u1">>] = STATE_WAITING_HOST_IP
    /\ Awaiting(user_data["u1"]) = "host_ip"

(* C10: when a conversation waits for input and the session awaits one of
   the nine simple kinds k, a free-text message m triggers exactly one
   execution of k's action with m stripped of surrounding whitespace, after
   which the awaited-input kind is none and the conversation is IDLE. *)
C10_SimpleInputConsumed ==
    [][( /\ last'.kind = "text"
         /\ Running
         /\ ~Outsider(last'.user)
         /\ conv[KeyOf(last')] \in WaitingStates
         /\ Awaiting(user_data[last'.user]) \in SimpleKinds )
       => /\ ActionDone(Awaiting(user_data[last'.user]), Trimmed(last'.text), fx')
          /\ Awaiting(user_data'[last'.user]) = "none"
          /\ conv'[KeyOf(last')] = END
      ]_vars

\* " b " was sent while a host ip was awaited: the host lookup ran for "b"
C10_Witness ==
    /\ Traced
    /\ last.kind = "text"
    /\ last.text = <<WS, "b", WS>>
    /\ handler = "handle_param_input"
    /\ Len(ApiCalls(fx)) = 1
    /\ ApiCalls(fx)[1].op = "host"
    /\ ApiCalls(fx)[1].arg = <<"b">>
    /\ Awaiting(user_data[last.user]) = "none"
    /\ conv[KeyOf(last)] = END

(* C11: a prompting command given with arguments executes its action once
   with those arguments, leaves the session data as it was (no awaited-input
   kind is set) and ends IDLE; given without arguments it sets the awaited
   kind of the command, sends one prompt and makes no upstream call. *)
JoinedKinds == {"raw_query", "count_query", "exploit_query"}

\* the argument the command acts on: all words joined by single blanks for
\* the query commands, the first word for the others
ArgOfCommand(kind, args) ==
    IF kind \in JoinedKinds
    THEN [i \in 1..(2 * Len(args) - 1) |->
             IF i % 2 = 1 THEN args[(i + 1) \div 2] ELSE WS]
    ELSE <<args[1]>>

PromptsSent(effects) ==
    {i \in DOMAIN effects :
        effects[i].t = "send" /\ effects[i].kb = <<Tok("menu", <<"main">>)>>}

PromptingFrom(upd) ==
    /\ upd.kind = "command"
    /\ upd.name \in PromptingCommands
    /\ ~Outsider(upd.user)

C11_CommandArgsOrPrompt ==
    [][(PromptingFrom(last') /\ Running) =>
        LET kind == KindOfCommand(last'.name)
            key == KeyOf(last')
        IN IF last'.args # <<>>
           THEN /\ ActionDone(kind, ArgOfCommand(kind, last'.args), fx')
                /\ user_data' = user_data
                /\ conv'[key] = END
           ELSE /\ Awaiting(user_data'[last'.user]) = kind
                /\ conv'[key] = StateOfKind(kind)
                /\ Len(ApiCalls(fx')) = 0
                /\ Cardinality(PromptsSent(fx')) = 1
                /\ Len(fx') = 1]_vars

\* /search a b sent while a host ip was awaited: one search for "a b", the
\* awaited kind untouched
C11_Witness ==
    /\ Traced
    /\ last = CommandUpdate(<<"c1", "u1">>, "search", <<"a", "b">>)
    /\ Len(Searches(fx)) = 1
    /\ Searches(fx)[1].arg = <<"a", WS, "b">>
    /\ Awaiting(user_data["u1"]) = "host_ip"
    /\ conv[<<"c1", "u1">>] = END

(* C12: an unknown or malformed callback token (unknown namespace, page:
   with a missing or non-numeric page, default: with fewer than three parts,
   use:/tmpl:/example: with an id outside the catalog) ends the flow
   silently: nothing but the acknowledgement of the press is sent, no
   exception escapes, and the conversation is IDLE. *)
MalformedTokens ==
    {<<"zzz">>, Tok("page", <<"x", ":", "a">>), Tok("page", <<"2">>),
     Tok("default", <<"org">>)}
    \cup {Tok(ns, <<"bad">>) : ns \in {"use", "tmpl", "example"}}

C12_MalformedSilent ==
    ( /\ Traced
      /\ last.kind = "callback"
      /\ last.data \in MalformedTokens
      /\ ~Outsider(last.user) )
    => /\ conv[KeyOf(last)] = END
       /\ \A i \in DOMAIN fx : fx[i].t = "answer"

(* C13: the informational callbacks cmd:info, cmd:filters, cmd:help and the
   noop callback change no state: pressed in any session state they leave
   the awaited-input kind, active template, collected values, parameter index
   and conversation state of the conversation as they were. *)
InformationalTokens ==
    {Tok("cmd", <<x>>) : x \in {"info", "filters", "help"}} \cup {<<"noop">>}

C13_InformationalNoChange ==
    [][( /\ last'.kind = "callback"
         /\ Running
         /\ last'.data \in InformationalTokens
         /\ ~Outsider(last'.user) )
       => SessionOf(conv', user_data', KeyOf(last'))
              = SessionOf(conv, user_data, KeyOf(last'))]_vars

(* C14: in every reachable state, a session with an active template T has a
   next parameter index of at most len(T.params) + 1. *)
C14_IndexBounded ==
    \A u \in Users, t \in DOMAIN TEMPLATES :
        ( /\ has(user_data[u], "current_template")
          /\ user_data[u]["current_template"] = <<TEMPLATES[t].id>>
          /\ has(user_data[u], "param_index") )
        => user_data[u]["param_index"] <= Len(TEMPLATES[t].params) + 1

\* the first of the two parameters of net_provider has been given as text
C14_Witness ==
    /\ Traced
    /\ last.kind = "text"
    /\ handler = "handle_param_input"
    /\ InParam(conv, user_data, KeyOf(last), net_provider, 1)
    /\ user_data[last.user]["param_index"] = 1

(* C15: for all total >= 0, page_size >= 1 and current_page >= 1 the
   pagination keyboard shows total_pages = max(1, ceil(total / page_size)),
   has a prev control exactly when current_page > 1 and a next control
   exactly when current_page < total_pages and current_page < 10. *)
CeilDiv(n, d) == CHOOSE k \in 0..n : k * d >= n /\ (k = 0 \/ (k - 1) * d < n)

PagesOf(total, page_size) ==
    IF CeilDiv(total, page_size) >= 1 THEN CeilDiv(total, page_size) ELSE 1

\* kb holds a button that asks for page n of query q
HasPageButton(kb, n, q) ==
    \E i \in DOMAIN kb : kb[i] = <<"page", ":", ToString(n), ":">> \o q

C15_PaginationControls ==
    pure_out.done =>
        LET p == pure_in.current_page
            pages == PagesOf(pure_in.total, pure_in.per_page)
        IN /\ pure_out.label = <<p, pages>>
           /\ HasPageButton(pure_out.kb, p - 1, PageQuery) <=> p > 1
           /\ HasPageButton(pure_out.kb, p + 1, PageQuery)
                  <=> (p < pages /\ p < 10)
           /\ \A n \in 0..(MaxPage + 1) :
                  HasPageButton(pure_out.kb, n, PageQuery) => n \in {p - 1, p + 1}

\* page 10 of 13: the cap withholds the next button, prev is there
C15_Witness ==
    /\ pure_out.done
    /\ pure_in.current_page = 10
    /\ pure_in.total = 13
    /\ pure_in.per_page = 1
    /\ HasPageButton(pure_out.kb, 9, PageQuery)
    /\ ~HasPageButton(pure_out.kb, 11, PageQuery)

(* C16: pagination tokens round-trip: pressing a page button that the bot
   rendered for a search of query q (with or without ":" in q) at page p
   runs exactly one search, with query q and the page the button names,
   p - 1 or p + 1. *)
C16_PageTokenRoundTrip ==
    [][(~Running /\ last'.kind = "callback" /\ last'.data \in PageButtons(fx))
       => LET shown == Searches(fx)[1]
              again == ApiCalls(fx')
          IN /\ Len(Searches(fx)) = 1
             /\ \E n \in {shown.page - 1, shown.page + 1} :
                    /\ last'.data = <<"page", ":", ToString(n), ":">> \o shown.arg
                    /\ Len(again) = 1
                    /\ again[1].op = "search"
                    /\ again[1].arg = shown.arg
                    /\ again[1].page = n]_vars

\* the next button under the first page of country:"ID" was pressed
C16_Witness ==
    /\ last.kind = "callback"
    /\ last.data = <<"page", ":", "2", ":", "country", ":", "\"", "ID", "\"">>
    /\ Len(Searches(fx)) = 1
    /\ Searches(fx)[1].arg = <<"country", ":", "\"", "ID", "\"">>
    /\ Searches(fx)[1].page = 2

(* C17: starting from a page-1 search and following only the prev and next
   buttons the bot renders, every search request sent upstream asks for a
   page between 1 and 10. *)
C17_PagesWithinCap ==
    \A i \in DOMAIN Searches(fx) :
        Searches(fx)[i].page >= 1 /\ Searches(fx)[i].page <= 10

\* page 10 was requested by following the next buttons, and offers no next
C17_Witness ==
    /\ last.kind = "callback"
    /\ Len(Searches(fx)) = 1
    /\ Searches(fx)[1].page = 10
    /\ Searches(fx)[1].res = "full"
    /\ \A t \in PageButtons(fx) : t[3] = "9"

(* C18: the query builder equals simultaneous substitution: for every
   catalog template T and value map V, values holding the placeholder text
   of another parameter included, build_query(T, V) is T's template string
   with each placeholder replaced by V's value for it, or by the example
   value where V has none, the values appearing verbatim. *)
C18_SimultaneousSubstitution ==
    (pure_in.kind = "build" /\ pure_out.done)
    => pure_out.query = SubstAll(pure_in.template.query_template,
                                 pure_in.template, pure_in.values)

\* every value of V is the example value of its parameter
DefaultsOnly(T, V) ==
    \A k \in DOMAIN V :
        \E i \in DOMAIN T.params :
            k = <<T.params[i].name>> /\ V[k] = T.params[i].placeholder

(* C19: for every catalog template T, build_query(T, {}) is T.example, and
   so is the query built from values left at their defaults; the example
   button of T runs one page-1 search of exactly that query. *)
C19_EmptyMapIsExample ==
    /\ (pure_in.kind = "build" /\ pure_out.done
         /\ DefaultsOnly(pure_in.template, pure_in.values))
       => pure_out.query = pure_in.template.example
    /\ (pure_in.kind = "build" /\ last.kind = "callback"
         /\ ~Outsider(last.user))
       => /\ Len(Searches(fx)) = 1
          /\ Searches(fx)[1].arg = pure_in.template.example
          /\ Searches(fx)[1].page = 1
          /\ (pure_out.done /\ DefaultsOnly(pure_in.template, pure_in.values))
             => Searches(fx)[1].arg = pure_out.query

\* the two-parameter template built from the empty map, its example run
C19_Witness ==
    /\ pure_in.kind = "build"
    /\ pure_in.template = net_provider
    /\ pure_in.values = EmptyDict
    /\ pure_out.done
    /\ pure_out.query = net_provider.example
    /\ last.kind = "callback"
    /\ Len(Searches(fx)) = 1

\* the operations of the terminal actions, and every request sent upstream
TerminalOps ==
    {"search", "count", "host", "dns_resolve", "dns_reverse", "dns_domain",
     "search_exploits", "honeypot_score", "scan", "scan_status"}

Requests(effects) ==
    SelectSeq(effects, LAMBDA e : e.t \in {"api", "request"})

ErrorShown(effects) ==
    \E i \in DOMAIN effects :
        /\ effects[i].t = "send"
        /\ effects[i].ok
        /\ effects[i].what \in {"api_error", "honeypot_unavailable"}

(* C20: an event that runs a terminal action (search, count, host, dns
   resolve, dns reverse, dns domain, exploit search, honeypot, scan, scan
   status) sends at most one request upstream, and when the answer is an
   error the user is shown an error message and the conversation is IDLE. *)
C20_UpstreamErrorSurfaced ==
    (last.kind # "none"
     /\ \E i \in DOMAIN fx : fx[i].t = "api" /\ fx[i].op \in TerminalOps)
    => /\ Len(Requests(fx)) <= 1
       /\ (\E i \in DOMAIN fx : fx[i].t = "api" /\ fx[i].res = "error")
          => /\ ErrorShown(fx)
             /\ conv[<<last.chat, last.user>>] = END

\* the top-level error handler ran: its message is among the effects
Escaped(effects) ==
    \E i \in DOMAIN effects :
        effects[i].t = "send" /\ effects[i].what = "unhandled_error"

(* C21: when an exception escapes a handler (a page: token with a
   non-numeric page for one), the top-level error handler reports the
   generic error message to the user and the conversation is IDLE afterwards,
   whatever state it was in. *)
C21_EscapeEndsIdle ==
    /\ ( /\ Traced
         /\ last.kind = "callback"
         /\ last.data = Tok("page", <<"x", ":", "a">>)
         /\ ~Outsider(last.user) )
       => Escaped(fx)
    /\ (Traced /\ Escaped(fx))
       => /\ fx[Len(fx)].what = "unhandled_error"
          /\ fx[Len(fx)].ok
          /\ conv[KeyOf(last)] = END

(* C22: every failed delivery of an outbound message, on every sending path
   (send_messages, reply_html, the direct replies of the callback router and
   of the parameter prompt), is followed by exactly one plain retry of the
   same message, and no delivery failure aborts the handler: the error
   handler is never entered for it. *)
C22_FailedSendRetriedOnce ==
    Traced
    => /\ \A i \in DOMAIN fx :
             (fx[i].t = "send" /\ fx[i].html /\ ~fx[i].ok)
             => /\ i < Len(fx)
                /\ fx[i + 1].t = "send"
                /\ ~fx[i + 1].html
                /\ fx[i + 1].what = fx[i].what
       /\ (\A i \in DOMAIN fx : fx[i].t = "answer" => fx[i].ok) => ~Escaped(fx)

ScanCalls(effects) ==
    SelectSeq(effects, LAMBDA e : e.t = "api" /\ e.op = "scan")

(* C23: a scan request is submitted upstream only while a doscan:<ip> press
   is handled, for the ip of the token, and only after a confirmation prompt
   for that ip was sent earlier in the conversation: in particular never by
   the first event the bot handles, before which nothing was sent. *)
C23_ScanOnlyAfterConfirmation ==
    (Traced /\ ScanCalls(fx) # <<>>)
    => /\ last.kind = "callback"
       /\ \A i \in DOMAIN ScanCalls(fx) :
             last.data = Tok("doscan", ScanCalls(fx)[i].arg)
       /\ nEvents > 1

(* C24: when a button press of an authorized identity is handled, the
   acknowledgement of the press is the first thing the handler does: it is
   the first effect and the only acknowledgement, and when it fails nothing
   else of the handler happens: the session, the conversation state and the
   account cache are as before, no upstream call is made and nothing but the
   error handler's message is sent. *)
C24_AcknowledgedFirst ==
    [][(Running /\ last'.kind = "callback" /\ ~Outsider(last'.user))
       => /\ Len(fx') >= 1
          /\ fx'[1].t = "answer"
          /\ \A i \in 2..Len(fx') : fx'[i].t # "answer"
          /\ ~fx'[1].ok
             => /\ user_data' = user_data
                /\ conv' = conv
                /\ info_cache' = info_cache
                /\ \A i \in 2..Len(fx') :
                      fx'[i].t = "send" /\ fx'[i].what = "unhandled_error"]_vars

\* a press whose acknowledgement failed, in a session that awaits an input
C24_Witness ==
    /\ last.kind = "callback"
    /\ ~Outsider(last.user)
    /\ fx[1].t = "answer"
    /\ ~fx[1].ok
    /\ Awaiting(user_data[last.user]) # "none"
    /\ conv[KeyOf(last)] # END

(* C25: whenever a handler is entered for a non-authorized identity, by a
   command, a free-text message or a button press, the denial notice shown
   carries that identity's own id. *)
C25_DenialCarriesId ==
    (Traced /\ Outsider(last.user) /\ handler # "NONE")
    => \E i \in DOMAIN fx :
          /\ fx[i].t = "send"
          /\ fx[i].what = "denied"
          /\ fx[i].arg = <<last.user>>

\* the states of the account cache
Caches == {"None", "empty", "full"}

\* the fields of a session held in user data
SessionData(ud) == [k \in DOMAIN ud \cap SessionFields |-> ud[k]]

\* what handling the press token for conversation key gives in the current
\* state when the upstream answers as in env and the cache holds cache: the
\* handler selected and the session afterwards
replay_out(upd, h, r) ==
    [handler |-> h,
     state |-> IF r.exc THEN conv[KeyOf(upd)] ELSE r.ret,
     data |-> SessionData(r.ud)]

replay_with(upd, env, cache, h) ==
    IF h = "NONE"
    THEN [handler |-> h, state |-> conv[KeyOf(upd)],
          data |-> SessionData(user_data[upd.user])]
    ELSE replay_out(upd, h, authorized(h, upd,
                                       Start(user_data[upd.user], cache), env))

Replay(key, token, env, cache) ==
    replay_with(CallbackUpdate(key, token), env, cache,
                check_update(conv[key], CallbackUpdate(key, token)))

(* C26: callback routing is deterministic: when a press of an authorized
   identity is handled, handling the same token for any authorized session
   in the same state, under any upstream answer and any content of the
   account cache, selects the same handler and gives the same session
   (conversation state, awaited kind, template, values, index). *)
C26_RoutingDeterministic ==
    [][(Running /\ last'.kind = "callback" /\ ~Outsider(last'.user))
       => \A key \in Keys, env \in PlainEnvs, cache \in Caches :
             ( /\ ~Outsider(key[2])
               /\ SessionOf(conv, user_data, key)
                  = SessionOf(conv, user_data, KeyOf(last')) )
             => Replay(key, last'.data, env, cache)
                = [handler |-> handler',
                   state |-> conv'[KeyOf(last')],
                   data |-> SessionData(user_data'[last'.user])]]_vars

\* a prompting button pressed while the account cache was filled
C26_Witness ==
    /\ last.kind = "callback"
    /\ last.data = Tok("menu", <<"host">>)
    /\ info_cache = "full"
    /\ conv[KeyOf(last)] = STATE_WAITING_HOST_IP
    /\ Awaiting(user_data[last.user]) = "host_ip"

InfoCalls(effects) ==
    SelectSeq(effects, LAMBDA e : e.t = "api" /\ e.op = "info")

(* C27: the account-info cache is one-shot: once a read of account info has
   returned a value, an empty record included, no later update changes the
   cached value or sends another account-info request upstream. *)
C27_CacheOneShot ==
    [][(info_cache # "None" /\ last'.kind # "none")
       => /\ info_cache' = info_cache
          /\ InfoCalls(fx') = <<>>]_vars

(* C28: no handler blocks the event loop for the duration of an external
   call: every upstream call made while an update is handled, on the paths
   of the commands given with arguments too, is dispatched to a worker
   thread, so that updates of other conversations can be handled meanwhile. *)
C28_CallsOffTheLoop ==
    Traced => \A i \in DOMAIN ApiCalls(fx) : ApiCalls(fx)[i].threaded

(* C29: updates of one conversation are never handled concurrently, in
   polling mode and in webhook mode alike: no two updates whose handling has
   begun and not ended belong to the same conversation. *)
C29_OneUpdateAtATime ==
    \A t1, t2 \in tasks :
        t1 # t2 => KeyOf(t1.upd) # KeyOf(t2.upd)

\* the template selection held in user data
Selection(ud) ==
    [k \in DOMAIN ud \cap {"current_template", "template_values", "param_index"}
        |-> ud[k]]

(* C30: pressing example:T for a template T of the catalog runs exactly one
   upstream call, a page-1 search of T's stored example query, and starts no
   parameter collection: the active template, collected values and parameter
   index of the session stay as they were and no parameter prompt is sent. *)
C30_ExampleRunsAtOnce ==
    [][(Running /\ last'.kind = "callback" /\ ~Outsider(last'.user))
       => \A t \in DOMAIN TEMPLATES :
             last'.data = Tok("example", <<TEMPLATES[t].id>>)
             => /\ Len(ApiCalls(fx')) = 1
                /\ ApiCalls(fx')[1].op = "search"
                /\ ApiCalls(fx')[1].arg = TEMPLATES[t].example
                /\ ApiCalls(fx')[1].page = 1
                /\ Selection(user_data'[last'.user])
                   = Selection(user_data[last'.user])
                /\ Sent(fx', "param_prompt") = <<>>]_vars

\* the example of one template was run while another template was active
C30_Witness ==
    /\ last.kind = "callback"
    /\ last.data = Tok("example", <<"region_overview">>)
    /\ Len(Searches(fx)) = 1
    /\ Searches(fx)[1].arg = region_overview.example
    /\ get(user_data[last.user], "current_template", NoId) = <<"net_provider">>
    /\ has(user_data[last.user], "param_index")

----------------------------------------------------------------------------
(* C31: each prompting button sets the awaited-input kind that matches it and
   sends one prompt (dns:resolve, dns:reverse, dns:domain: dns-resolve,
   dns-reverse, dns-domain; menu:host, menu:exploits, menu:raw, menu:count:
   host-ip, exploit-query, raw-query, count-query), and the free-text message
   sent next in the conversation is handled by exactly that tool. *)
PromptingTokens ==
    {Tok("dns", <<x>>) : x \in {"resolve", "reverse", "domain"}}
    \cup {Tok("menu", <<x>>) : x \in {"host", "exploits", "raw", "count"}}

KindOfToken(data) ==
    CASE data = Tok("dns", <<"resolve">>) -> "dns_resolve"
      [] data = Tok("dns", <<"reverse">>) -> "dns_reverse"
      [] data = Tok("dns", <<"domain">>) -> "dns_domain"
      [] data = Tok("menu", <<"host">>) -> "host_ip"
      [] data = Tok("menu", <<"exploits">>) -> "exploit_query"
      [] data = Tok("menu", <<"raw">>) -> "raw_query"
      [] data = Tok("menu", <<"count">>) -> "count_query"

C31_ButtonSetsKind ==
    ( /\ Traced
      /\ last.kind = "callback"
      /\ last.data \in PromptingTokens
      /\ ~Outsider(last.user) )
    => /\ Awaiting(user_data[last.user]) = KindOfToken(last.data)
       /\ Cardinality(PromptsSent(fx)) = 1
       /\ SendAttempts(fx) = 1
       /\ Len(ApiCalls(fx)) = 0
       /\ \A text \in Texts, env \in Reliable :
            LET x == process_update(TextUpdate(KeyOf(last), text), env) IN
            /\ x.handler = "handle_param_input"
            /\ ActionDone(KindOfToken(last.data), Trimmed(text), x.fx)

\* dns:domain was pressed while the session awaited a host ip
C31_Witness ==
    /\ Traced
    /\ last = CallbackUpdate(<<"c1", "u1">>, Tok("dns", <<"domain">>))
    /\ nEvents = 2
    /\ conv[<<"c1", "u1">>] = STATE_WAITING_DNS
    /\ Awaiting(user_data["u1"]) = "dns_domain"
    /\ Cardinality(PromptsSent(fx)) = 1

----------------------------------------------------------------------------
(* C32: in AWAITING_TEMPLATE_PARAM(T, i) with i < len(T.params), a free-text
   reply v stores v without its surrounding whitespace under the name of
   parameter i, moves the index to i+1 and leaves the active template and
   every other collected value as they were.  When i+1 = len(T.params) the
   machine re-evaluates at once and the session is cleared (C3): the map is
   then read off the query of the completion search. *)
C32_ReplyStoresValue ==
    [][last'.kind = "text" /\ Running =>
        \A t \in DOMAIN TEMPLATES, i \in 0..1 :
            LET T == TEMPLATES[t]
                key == KeyOf(last')
            IN
            (i < Len(T.params) /\ InParam(conv, user_data, key, T, i))
            => LET old == user_data[key[2]]["template_values"]
                   name == <<T.params[i + 1].name>>
                   new == [k \in DOMAIN old \cup {name} |->
                              IF k = name THEN Trimmed(last'.text) ELSE old[k]]
               IN IF i + 1 < Len(T.params)
                  THEN /\ InParam(conv', user_data', key, T, i + 1)
                       /\ user_data'[key[2]]["template_values"] = new
                  ELSE /\ Len(Searches(fx')) = 1
                       /\ Searches(fx')[1].arg
                              = SubstAll(T.query_template, T, new)]_vars

\* " b " was given for the second parameter of net_provider after "a" for the
\* first: the completion search carries both
C32_Witness ==
    /\ Traced
    /\ last = TextUpdate(<<"c1", "u1">>, <<WS, "b", WS>>)
    /\ handler = "handle_param_input"
    /\ Len(Searches(fx)) = 1
    /\ Searches(fx)[1].arg = <<"org", ":", "\"", "a", "\"", WS,
                               "country", ":", "\"", "b", "\"">>
    /\ nEvents = 3

----------------------------------------------------------------------------
(* C33: the webhook endpoint answers every request with HTTP status 200,
   whether the update was processed, could not be parsed, or raised during
   processing. *)
C33_AlwaysOk ==
    \A i \in DOMAIN requests :
        /\ requests[i].pc = "done" => requests[i].response.status_code = 200
        /\ requests[i].pc # "done" => requests[i].response = NoResponse

\* one request carried an unparsable body, the other one an update that was
\* handled: both were answered
C33_Witness ==
    /\ Len(requests) = 2
    /\ \A i \in DOMAIN requests : requests[i].pc = "done"
    /\ requests[1].body = Garbage
    /\ requests[1].response.body = "error"
    /\ requests[2].response.body = ""
    /\ Traced

(* C40: get_application builds at most one Application per process, and every
   caller receives an instance whose initialization has completed, also when
   two webhook invocations call it concurrently before the first
   initialization has finished. *)
C40_OneInitializedInstance ==
    /\ _application.builds <= 1
    /\ \A i \in DOMAIN requests : requests[i].got # "uninitialized"

(* C34: a free-text message that does not start with "/" and arrives when no
   input is awaited and the conversation is IDLE is executed, as routed by
   the registered conversation handler, as a raw search with the message
   text as the query. *)
C34_IdleTextSearches ==
    [][( /\ last'.kind = "text"
         /\ Running
         /\ ~Outsider(last'.user)
         /\ conv[KeyOf(last')] = END
         /\ Awaiting(user_data[last'.user]) = "none"
         /\ Trimmed(last'.text)[1] # "/" )
       => /\ Len(Searches(fx')) = 1
          /\ Searches(fx')[1].arg = Trimmed(last'.text)
          /\ Searches(fx')[1].page = 1]_vars

(* C35: whenever a conversation is in a waiting state, the awaited-input kind
   of its session is one that the state accepts (WAITING_PARAM:
   template-parameter; WAITING_RAW_QUERY: raw-query; WAITING_COUNT_QUERY:
   count-query; WAITING_HOST_IP: host-ip; WAITING_DNS: dns-resolve,
   dns-reverse or dns-domain; WAITING_EXPLOIT: exploit-query;
   WAITING_HONEYPOT_IP: honeypot-ip; WAITING_SCAN_IP: scan-ip), after any
   sequence of updates of any users and chats. *)
Accepted(state) ==
    CASE state = STATE_WAITING_PARAM -> {"template_param"}
      [] state = STATE_WAITING_RAW_QUERY -> {"raw_query"}
      [] state = STATE_WAITING_COUNT_QUERY -> {"count_query"}
      [] state = STATE_WAITING_HOST_IP -> {"host_ip"}
      [] state = STATE_WAITING_DNS -> {"dns_resolve", "dns_reverse", "dns_domain"}
      [] state = STATE_WAITING_EXPLOIT -> {"exploit_query"}
      [] state = STATE_WAITING_HONEYPOT_IP -> {"honeypot_ip"}
      [] state = STATE_WAITING_SCAN_IP -> {"scan_ip"}

C35_KindMatchesState ==
    \A key \in Keys :
        conv[key] \in WaitingStates
        => Awaiting(user_data[key[2]]) \in Accepted(conv[key])

(* C36: whenever a free-text reply or a default-button press is handled as a
   template parameter, the parameter index of the session is strictly less
   than the number of parameters of the active template, so the parameter
   lookup is never out of range, also after a message send failed during the
   completion step. *)
C36_IndexInRange ==
    [][( /\ last'.kind # "none"
         /\ Running
         /\ ~Outsider(last'.user)
         /\ \/ /\ handler' = "handle_param_input"
               /\ Awaiting(user_data[last'.user]) = "template_param"
            \/ handler' = "handle_default_param" )
       => \A t \in DOMAIN TEMPLATES :
            get(user_data[last'.user], "current_template", NoId)
                = <<TEMPLATES[t].id>>
            => get(user_data[last'.user], "param_index", 0)
                   < Len(TEMPLATES[t].params)]_vars

(* C37: paging preserves the search parameters: the search re-executed by a
   prev or next button uses the same query text and the same facet spec as
   the search whose result carried the button, in particular for the results
   of a template that defines facets. *)
C37_PagingKeepsParameters ==
    [][(~Running /\ last'.kind = "callback" /\ last'.data \in PageButtons(fx))
       => /\ Len(Searches(fx)) = 1
          /\ Len(Searches(fx')) = 1
          /\ Searches(fx')[1].arg = Searches(fx)[1].arg
          /\ Searches(fx')[1].facets = Searches(fx)[1].facets]_vars

(* C38: a confirmation prompt authorizes at most one scan submission: for
   each ip, the upstream scan requests issued for it are at most as many as
   the confirmation prompts sent for it, however many times the doscan button
   of a prompt is pressed. *)
ScansOf(effects, ip) ==
    SelectSeq(effects, LAMBDA e : e.t = "api" /\ e.op = "scan" /\ e.arg = ip)

PromptsFor(effects, ip) ==
    SelectSeq(effects,
              LAMBDA e : e.t = "send" /\ e.what = "confirm_scan" /\ e.arg = ip)

C38_OneScanPerPrompt ==
    \A ip \in {<<"a">>, <<"b">>} :
        Len(ScansOf(log, ip)) <= Len(PromptsFor(log, ip))

(* C39: the gate never fails open on a configured allow-list: when the
   AUTHORIZED_USERS setting is a non-empty string, an identity that the
   parsed allow-list does not hold is denied, whatever the entries of the
   setting are (an entry that is no plain digit string does not turn the
   gate into allow-all). *)
C39_GateNeverOpen ==
    (Traced /\ handler # "NONE" /\ pure_in.setting # <<>>
        /\ last.user \notin allow)
    => /\ DenialIn(fx, last)
       /\ Len(Sent(fx, "welcome")) = 0

====
